---- MODULE Spec2Model ----
(***************************************************************************)
(* Model of crates/rust-analyzer/src/diagnostics/to_proto.rs: the          *)
(* translation of `cargo check` diagnostics into LSP diagnostics.          *)
(*                                                                         *)
(* Representation                                                          *)
(*   Option<T>        None == <<>>, Some(x) == <<x>>                       *)
(*   code, file_name,                                                     *)
(*   path, Url        sequences of characters; a multi-letter element such *)
(*                    as "dead_code" or "a.rs" stands for a run of         *)
(*                    ordinary characters (no ':', '/', '\', '<', '>')     *)
(*   message, label   TLA+ strings, concatenated with \o                   *)
(*   u64              an integer; u64::MAX (the wrapped 0 - 1) is written  *)
(*                    as its representative -1 modulo 2^64                 *)
(*   panic            a location [panic |-> TRUE] that every caller hands  *)
(*                    on, up to the result of the call                     *)
(***************************************************************************)
EXTENDS Integers, Sequences, FiniteSets, TLC

VARIABLES
    rd,               \* the root diagnostic handed to map_rust_diagnostic_to_lsp
    span,             \* the span handed to map_span_to_location
    workspace_root,   \* the workspace root path of the call
    target_windows,   \* cfg!(windows) of the build
    overflow_checks,  \* cfg!(overflow_checks) of the build (debug: TRUE)
    mapped,           \* what map_rust_diagnostic_to_lsp returned
    location,         \* what map_span_to_location returned
    naive,            \* what map_span_to_location_naive returned
    pc,               \* "call" before the call, "done" after it
    url_path,         \* the path handed to url_from_path_with_drive_lowercasing
    url_result,       \* what url_from_path_with_drive_lowercasing returned
    stack,            \* the resolver invocations that have not returned yet
    calls,            \* the resolver invocations made so far, in call order
    disk_file,        \* the file at the path handed to codegen update
    log,              \* the calls of codegen update so far, with their outcome
    source_text,      \* the text handed to do_extract_comment_blocks
    allow_empty,      \* its argument allow_blocks_with_empty_lines
    blocks            \* what do_extract_comment_blocks returned

url_vars == <<url_path, url_result>>
walk_vars == <<stack, calls>>
xtask_vars == <<disk_file, log, source_text, allow_empty, blocks>>

vars == <<rd, span, workspace_root, target_windows, overflow_checks,
          mapped, location, naive, pc, url_vars, walk_vars, xtask_vars>>

\* ------------------------------------------------------------ bounds
MaxSpans == 2
MaxChildren == 2
MaxDepth == 2
MaxLine == 2
MaxCodeLen == 4

\* ------------------------------------------------------------ options
None == <<>>
Some(x) == <<x>>
IsSome(o) == Len(o) = 1
IsNone(o) == Len(o) = 0
Unwrap(o) == o[1]

Last(s) == s[Len(s)]

\* The elements of s that satisfy Test, in order (Iterator::filter).
Filter(s, Test(_)) == SelectSeq(s, Test)

\* ------------------------------------------------------------ severity
Levels == {"Ice", "Error", "Warning", "Note", "Help", "Unknown"}

\* Faulty variant: Ice falls through to the warning arm.
map_level_to_severity_IceAsWarning(val) ==
    CASE val = "Ice"     -> Some("Warning")
      [] val = "Error"   -> Some("Error")
      [] val = "Warning" -> Some("Warning")
      [] val = "Note"    -> Some("Information")
      [] val = "Help"    -> Some("Hint")
      [] val = "Unknown" -> None

map_level_to_severity(val) ==
    CASE val = "Ice"     -> Some("Error")
      [] val = "Error"   -> Some("Error")
      [] val = "Warning" -> Some("Warning")
      [] val = "Note"    -> Some("Information")
      [] val = "Help"    -> Some("Hint")
      [] val = "Unknown" -> None

\* ------------------------------------------------------------ paths and URLs
is_from_macro(file_name) ==
    Len(file_name) > 0 /\ Head(file_name) = "<" /\ Last(file_name) = ">"

\* std::path's separators of the target.
IsSeparator(c) == c = "/" \/ (target_windows /\ c = "\\")

DriveLetters == {"C", "c", "D", "d"}

\* std::path's prefix of a path (Windows only; a Unix path has none):
\* \\?\C: is VerbatimDisk, \\host\share is UNC, C: is Disk.
PathPrefix(path) ==
    IF ~target_windows THEN [kind |-> "None", len |-> 0]
    ELSE IF /\ Len(path) >= 6
            /\ SubSeq(path, 1, 4) = <<"\\", "\\", "?", "\\">>
            /\ path[5] \in DriveLetters
            /\ path[6] = ":"
         THEN [kind |-> "VerbatimDisk", len |-> 6]
    ELSE IF /\ Len(path) >= 5
            /\ SubSeq(path, 1, 2) = <<"\\", "\\">>
            /\ path[3] \notin {"\\", "/", "?", "."}
            /\ IsSeparator(path[4])
            /\ ~IsSeparator(path[5])
         THEN [kind |-> "UNC", len |-> 5]
    ELSE IF Len(path) >= 2 /\ path[1] \in DriveLetters /\ path[2] = ":"
         THEN [kind |-> "Disk", len |-> 2]
    ELSE [kind |-> "None", len |-> 0]

\* Path::has_root: a separator follows the prefix (verbatim and UNC prefixes
\* have an implicit root).
HasRoot(path) ==
    LET p == PathPrefix(path)
    IN  \/ p.kind \in {"VerbatimDisk", "UNC"}
        \/ Len(path) > p.len /\ IsSeparator(path[p.len + 1])

\* Path::is_absolute: a root on Unix, a prefix and a root on Windows.
IsAbsolute(path) ==
    IF target_windows THEN PathPrefix(path).kind # "None" /\ HasRoot(path)
    ELSE HasRoot(path)

MainSeparator == IF target_windows THEN "\\" ELSE "/"

\* PathBuf::push: an absolute path (or one with a prefix) replaces self;
\* otherwise it is appended, after a separator when self does not end in one.
PathPush(self, path) ==
    IF IsAbsolute(path) \/ PathPrefix(path).kind # "None" THEN path
    ELSE IF target_windows /\ HasRoot(path)
         THEN SubSeq(self, 1, PathPrefix(self).len) \o path
    ELSE IF Len(self) = 0 \/ IsSeparator(Last(self)) THEN self \o path
    ELSE self \o <<MainSeparator>> \o path

\* Path::components after the prefix: the runs between separators; empty
\* runs and "." are skipped. cur is the run read so far.
RECURSIVE SplitPath(_, _)
SplitPath(path, cur) ==
    LET done == IF Len(cur) = 0 \/ cur = <<".">> THEN <<>> ELSE <<cur>>
    IN  IF Len(path) = 0 THEN done
        ELSE IF IsSeparator(Head(path)) THEN done \o SplitPath(Tail(path), <<>>)
        ELSE SplitPath(Tail(path), Append(cur, Head(path)))

PathComponents(path) ==
    SplitPath(SubSeq(path, PathPrefix(path).len + 1, Len(path)), <<>>)

\* percent_encode with the url crate's PATH_SEGMENT set, on the characters
\* the model's paths are made of.
PercentEncode(c) ==
    CASE c = "<" -> "%3C"
      [] c = ">" -> "%3E"
      [] c = "?" -> "%3F"
      [] c = " " -> "%20"
      [] OTHER   -> c

PercentEncodeAll(comp) == [i \in 1..Len(comp) |-> PercentEncode(comp[i])]

\* "/" + encoded component, for every component.
RECURSIVE UrlSegments(_)
UrlSegments(comps) ==
    IF Len(comps) = 0 THEN <<>>
    ELSE <<"/">> \o PercentEncodeAll(Head(comps)) \o UrlSegments(Tail(comps))

\* The serialization of a file URL: file:// + host + the segments, "/" alone
\* when there is none.
FileUrl(host, segs) ==
    Some(<<"file", ":", "/", "/">> \o host \o (IF Len(segs) = 0 THEN <<"/">> ELSE segs))

\* The host and the first segment that a Windows prefix gives the URL.
PrefixUrl(p, path, segs) ==
    CASE p.kind = "Disk"         -> FileUrl(<<>>, <<"/", path[1], ":">> \o (IF Len(segs) = 0 THEN <<"/">> ELSE segs))
      [] p.kind = "VerbatimDisk" -> FileUrl(<<>>, <<"/", path[5], ":">> \o (IF Len(segs) = 0 THEN <<"/">> ELSE segs))
      [] p.kind = "UNC"          -> FileUrl(<<path[3]>>, <<"/", path[5]>> \o segs)
      [] OTHER                   -> None

\* Url::from_file_path: Err (None) unless the path is absolute and, on
\* Windows, starts with a disk or UNC prefix.
UrlFromFilePath(path) ==
    IF ~IsAbsolute(path) THEN None
    ELSE IF ~target_windows THEN FileUrl(<<>>, UrlSegments(PathComponents(path)))
    ELSE PrefixUrl(PathPrefix(path), path, UrlSegments(PathComponents(path)))

\* str::to_ascii_lowercase, on the characters and runs the model uses.
AsciiLower(c) ==
    CASE c = "C"    -> "c"
      [] c = "D"    -> "d"
      [] c = "Test" -> "test"
      [] c = "%3C"  -> "%3c"
      [] c = "%3E"  -> "%3e"
      [] c = "%3F"  -> "%3f"
      [] OTHER      -> c

to_ascii_lowercase(s) == [i \in 1..Len(s) |-> AsciiLower(s[i])]

\* The index of the last c in s, 0 when there is none (rsplitn(2, c)).
RECURSIVE LastIndexOf(_, _)
LastIndexOf(s, c) ==
    IF Len(s) = 0 THEN 0
    ELSE IF Last(s) = c THEN Len(s)
    ELSE LastIndexOf(SubSeq(s, 1, Len(s) - 1), c)

\* Url::from_str of a file URL the model serialized: percent escapes are
\* kept as written, the text is already in serialized form.
UrlFromStr(s) == s

\* joined = drive_partition[1].to_ascii_lowercase() + ":" + drive_partition[0],
\* i the index of the last colon of the URL.
Joined(url_original, i) ==
    to_ascii_lowercase(SubSeq(url_original, 1, i - 1))
        \o <<":">> \o SubSeq(url_original, i + 1, Len(url_original))

\* drive_partition = url_original.rsplitn(2, ':'), i the index of the last
\* colon: one part (i = 0) passes the URL through, else the part before the
\* colon is lowercased and the URL parsed again.
LowercaseDrive(url_original, i) ==
    IF i = 0 THEN Some(url_original)
    ELSE Some(UrlFromStr(Joined(url_original, i)))

\* Faulty variant: a failed Url::from_file_path is not handed on as an error,
\* an empty URL is returned instead.
DriveUrl_EmptyOnError(url_original) ==
    IF IsNone(url_original) THEN Some(<<>>)
    ELSE LowercaseDrive(Unwrap(url_original), LastIndexOf(Unwrap(url_original), ":"))

\* The branch taken for a path with a Disk or VerbatimDisk prefix.
DriveUrl(url_original) ==
    IF IsNone(url_original) THEN None
    ELSE LowercaseDrive(Unwrap(url_original), LastIndexOf(Unwrap(url_original), ":"))

\* Result<Url>: None is Err, Some(url) is Ok.
url_from_path_with_drive_lowercasing(path) ==
    IF PathPrefix(path).kind \in {"Disk", "VerbatimDisk"}
    THEN DriveUrl(UrlFromFilePath(path))
    ELSE UrlFromFilePath(path)

\* Url::from_str accepts a text that starts with a scheme and its colon.
UrlParses(s) == Len(s) >= 2 /\ s[1] = "file" /\ s[2] = ":"

\* .expect("This came from a valid `Url`") panics when the joined text of a
\* drive path does not parse.
ExpectPanics(path) ==
    /\ PathPrefix(path).kind \in {"Disk", "VerbatimDisk"}
    /\ IsSome(UrlFromFilePath(path))
    /\ LastIndexOf(Unwrap(UrlFromFilePath(path)), ":") # 0
    /\ ~UrlParses(Joined(Unwrap(UrlFromFilePath(path)),
                         LastIndexOf(Unwrap(UrlFromFilePath(path)), ":")))

\* The outcome of one call: a panic, or the Result that is returned.
UrlCall(path) ==
    IF ExpectPanics(path) THEN [panic |-> TRUE, result |-> None]
    ELSE [panic |-> FALSE, result |-> url_from_path_with_drive_lowercasing(path)]

\* ------------------------------------------------------------ span resolver
Panicked == [panic |-> TRUE]
IsPanic(loc) == "panic" \in DOMAIN loc

\* `x as u64 - 1`: with overflow checks 0 - 1 panics (see
\* map_span_to_location_naive); without them it wraps to u64::MAX, written -1.
\* Faulty variant: the bound is taken as it is, 1-based.
WrappingSub1_OneBased(x) == x

WrappingSub1(x) == x - 1

Position(line, character) == [line |-> line, character |-> character]

Range(start, end) == [start |-> start, end |-> end]

\* Location { uri, range } of a span and the URL of its file: the unwrap of an
\* Err URL panics, and so does, with overflow checks, 0 - 1.
Location(uri, sp) ==
    IF IsNone(uri) THEN Panicked
    ELSE IF /\ overflow_checks
            /\ 0 \in {sp.line_start, sp.column_start, sp.line_end, sp.column_end}
         THEN Panicked
    ELSE [uri   |-> Unwrap(uri),
          range |-> Range(Position(WrappingSub1(sp.line_start),
                                   WrappingSub1(sp.column_start)),
                          Position(WrappingSub1(sp.line_end),
                                   WrappingSub1(sp.column_end)))]

map_span_to_location_naive(sp, root) ==
    Location(url_from_path_with_drive_lowercasing(PathPush(root, sp.file_name)), sp)

RECURSIVE map_macro_span_to_location(_, _)
RECURSIVE map_span_to_location(_, _)

\* Faulty variant: the first call site in a real file is the answer as it stands,
\* its own expansion is not followed.
map_macro_span_to_location_FirstRealFile(span_macro, root) ==
    IF ~is_from_macro(span_macro.span.file_name)
    THEN Some(map_span_to_location_naive(span_macro.span, root))
    ELSE IF IsSome(span_macro.span.expansion)
         THEN map_macro_span_to_location(Unwrap(span_macro.span.expansion), root)
    ELSE None

\* Faulty variant: a call site in a macro frame ends the walk, its own
\* expansion is not followed.
map_macro_span_to_location_OneStep(span_macro, root) ==
    IF ~is_from_macro(span_macro.span.file_name)
    THEN Some(map_span_to_location(span_macro.span, root))
    ELSE None

\* Option<Location>: the location of the call site when it is in a real
\* file (resolved in its turn), else that of the call site's own expansion.
map_macro_span_to_location(span_macro, root) ==
    IF ~is_from_macro(span_macro.span.file_name)
    THEN Some(map_span_to_location(span_macro.span, root))
    ELSE IF IsSome(span_macro.span.expansion)
         THEN map_macro_span_to_location(Unwrap(span_macro.span.expansion), root)
    ELSE None

\* Faulty variant: when the walk of the chain fails, the span's first call
\* site is located, not the span itself.
LocationOr_CallSite(macro_range, sp, root) ==
    IF IsSome(macro_range) THEN Unwrap(macro_range)
    ELSE IF IsSome(sp.expansion)
         THEN map_span_to_location_naive(Unwrap(sp.expansion).span, root)
    ELSE map_span_to_location_naive(sp, root)

\* macro_range is the result of map_macro_span_to_location, None also when
\* the span has no expansion.
LocationOr(macro_range, sp, root) ==
    IF IsSome(macro_range) THEN Unwrap(macro_range)
    ELSE map_span_to_location_naive(sp, root)

map_span_to_location(sp, root) ==
    LocationOr(IF IsSome(sp.expansion)
               THEN map_macro_span_to_location(Unwrap(sp.expansion), root)
               ELSE None,
               sp, root)

\* Faulty variant: the location is resolved before the label is looked at.
map_secondary_span_to_related_Eager(sp, root) ==
    IF IsPanic(map_span_to_location(sp, root))
    THEN Some([location |-> Panicked, message |-> ""])
    ELSE IF IsNone(sp.label) THEN None
    ELSE Some([location |-> map_span_to_location(sp, root),
               message  |-> Unwrap(sp.label)])

\* Option<DiagnosticRelatedInformation>: None for an unlabelled span.
map_secondary_span_to_related(sp, root) ==
    IF IsNone(sp.label) THEN None
    ELSE Some([location |-> map_span_to_location(sp, root),
               message  |-> Unwrap(sp.label)])

\* ------------------------------------------------------------ codes and tags
UnusedCodes ==
    {"dead_code", "unknown_lints", "unreachable_code", "unused_attributes",
     "unused_imports", "unused_macros", "unused_variables"}

\* Faulty variant: "deprecated" is listed among the unused codes.
is_unused_or_unnecessary_WithDeprecated(d) ==
    IF IsSome(d.code)
    THEN \E c \in UnusedCodes \cup {"deprecated"} : Unwrap(d.code).code = <<c>>
    ELSE FALSE

is_unused_or_unnecessary(d) ==
    IF IsSome(d.code)
    THEN \E c \in UnusedCodes : Unwrap(d.code).code = <<c>>
    ELSE FALSE

\* Faulty variant: the check is made on the last part of a scoped code.
is_deprecated_LastPart(d) ==
    IF IsSome(d.code)
    THEN Len(Unwrap(d.code).code) >= 1 /\ Last(Unwrap(d.code).code) = "deprecated"
    ELSE FALSE

is_deprecated(d) ==
    IF IsSome(d.code) THEN Unwrap(d.code).code = <<"deprecated">> ELSE FALSE

\* str::split("::"): the parts between the non-overlapping "::" found from
\* the left; cur is the part read so far.
RECURSIVE SplitScoped(_, _)
SplitScoped(s, cur) ==
    IF Len(s) = 0 THEN <<cur>>
    ELSE IF Len(s) >= 2 /\ s[1] = ":" /\ s[2] = ":"
         THEN <<cur>> \o SplitScoped(SubSeq(s, 3, Len(s)), <<>>)
    ELSE SplitScoped(Tail(s), Append(cur, Head(s)))

\* ------------------------------------------------------------ children
IsPrimary(sp) == sp.is_primary
IsSecondary(sp) == ~sp.is_primary

Related(related) == [kind |-> "Related", related |-> related]
SuggestedFix(code_action) == [kind |-> "SuggestedFix", code_action |-> code_action]
MessageLine(message_line) == [kind |-> "MessageLine", message_line |-> message_line]
ChildPanicked == [kind |-> "Panicked"]

EmptyEditMap == [panic |-> FALSE, changes |-> [u \in {} |-> <<>>]]

TextEdit(range, new_text) == [range |-> range, new_text |-> new_text]

\* Faulty variant: every replacement counts, whatever its applicability.
HasMachineApplicableFix_AnyApplicability(sp) ==
    /\ IsSome(sp.suggestion_applicability)
    /\ IsSome(sp.suggested_replacement)

HasMachineApplicableFix(sp) ==
    /\ sp.suggestion_applicability = Some("MachineApplicable")
    /\ IsSome(sp.suggested_replacement)

\* Faulty variant: insert, not push: a later edit of a file replaces the
\* edits that file had.
PushEdit_Insert(changes, loc, new_text) ==
    [u \in DOMAIN changes \cup {loc.uri} |->
        IF u = loc.uri THEN <<TextEdit(loc.range, new_text)>> ELSE changes[u]]

\* edit_map.entry(location.uri).or_default().push(edit)
PushEdit(changes, loc, new_text) ==
    [u \in DOMAIN changes \cup {loc.uri} |->
        IF u = loc.uri
        THEN (IF u \in DOMAIN changes THEN changes[u] ELSE <<>>)
             \o <<TextEdit(loc.range, new_text)>>
        ELSE changes[u]]

\* One turn of the loop for a span with a machine-applicable replacement,
\* loc its resolved location.
PushEditAt(edit_map, loc, new_text) ==
    IF IsPanic(loc) THEN [edit_map EXCEPT !.panic = TRUE]
    ELSE [edit_map EXCEPT !.changes = PushEdit(@, loc, new_text)]

\* The loop over the child's primary spans that fills edit_map.
RECURSIVE CollectEdits(_, _, _)
CollectEdits(spans, root, edit_map) ==
    IF Len(spans) = 0 \/ edit_map.panic THEN edit_map
    ELSE IF ~HasMachineApplicableFix(Head(spans))
         THEN CollectEdits(Tail(spans), root, edit_map)
    ELSE CollectEdits(Tail(spans), root,
            PushEditAt(edit_map, map_span_to_location(Head(spans), root),
                       Unwrap(Head(spans).suggested_replacement)))

\* A child with primary spans and no edit: related information at the
\* location of the first primary span.
RelatedAt(loc, message) ==
    IF IsPanic(loc) THEN ChildPanicked
    ELSE Related([location |-> loc, message |-> message])

CodeAction(title, changes) ==
    [title   |-> title,
     id      |-> None,
     group   |-> None,
     kind    |-> Some("quickfix"),
     edit    |-> Some([changes |-> Some(changes), document_changes |-> None]),
     command |-> None]

\* The child's classification, spans its primary spans (not empty) and
\* edit_map what the loop over them collected.
Classify(child, spans, root, edit_map) ==
    IF edit_map.panic THEN ChildPanicked
    ELSE IF DOMAIN edit_map.changes = {}
         THEN RelatedAt(map_span_to_location(spans[1], root), child.message)
    ELSE SuggestedFix(CodeAction(child.message, edit_map.changes))

WithPrimarySpans(child, spans, root) ==
    IF Len(spans) = 0 THEN MessageLine(child.message)
    ELSE Classify(child, spans, root, CollectEdits(spans, root, EmptyEditMap))

\* Faulty variant: the spans are not filtered by is_primary.
map_rust_child_diagnostic_AllSpans(child, root) ==
    WithPrimarySpans(child, child.spans, root)

map_rust_child_diagnostic(child, root) ==
    WithPrimarySpans(child, Filter(child.spans, IsPrimary), root)

\* ------------------------------------------------------------ aggregator
\* The locals of map_rust_diagnostic_to_lsp that its loops update.
InitialLocals(d) ==
    [panic                    |-> FALSE,
     related_information      |-> <<>>,
     fixes                    |-> <<>>,
     message                  |-> d.message,
     needs_primary_span_label |-> TRUE]

\* if let Some(related) = related { related_information.push(related) }
PushRelated(l, related) ==
    IF IsNone(related) THEN l
    ELSE IF IsPanic(Unwrap(related).location) THEN [l EXCEPT !.panic = TRUE]
    ELSE [l EXCEPT !.related_information = Append(@, Unwrap(related))]

\* for secondary_span in rd.spans.iter().filter(|s| !s.is_primary)
RECURSIVE SecondarySpans(_, _, _)
SecondarySpans(spans, root, l) ==
    IF Len(spans) = 0 \/ l.panic THEN l
    ELSE SecondarySpans(Tail(spans), root,
            PushRelated(l, map_secondary_span_to_related(Head(spans), root)))

\* Faulty variant: a message line leaves needs_primary_span_label as it is.
PushChild_KeepLabel(l, child) ==
    CASE child.kind = "Related" ->
            [l EXCEPT !.related_information = Append(@, child.related)]
      [] child.kind = "SuggestedFix" ->
            [l EXCEPT !.fixes = Append(@, child.code_action)]
      [] child.kind = "MessageLine" ->
            [l EXCEPT !.message = @ \o "\n" \o child.message_line]
      [] child.kind = "Panicked" ->
            [l EXCEPT !.panic = TRUE]

\* The match on a mapped child in the loop over rd.children.
PushChild(l, child) ==
    CASE child.kind = "Related" ->
            [l EXCEPT !.related_information = Append(@, child.related)]
      [] child.kind = "SuggestedFix" ->
            [l EXCEPT !.fixes = Append(@, child.code_action)]
      [] child.kind = "MessageLine" ->
            [l EXCEPT !.message = @ \o "\n" \o child.message_line,
                      !.needs_primary_span_label = FALSE]
      [] child.kind = "Panicked" ->
            [l EXCEPT !.panic = TRUE]

\* for child in &rd.children
RECURSIVE Children(_, _, _)
Children(children, root, l) ==
    IF Len(children) = 0 \/ l.panic THEN l
    ELSE Children(Tail(children), root,
                  PushChild(l, map_rust_child_diagnostic(Head(children), root)))

BREADCRUMB == "Error originated from macro here"

\* Faulty variant: empty collections are emitted as they are.
LspDiagnostic_EmptyCollections(range, c, message, related_information) ==
    [range               |-> range,
     severity            |-> c.severity,
     code                |-> c.code,
     source              |-> Some(c.source),
     message             |-> message,
     related_information |-> Some(related_information),
     tags                |-> Some(c.tags)]

\* The Diagnostic built in the closure.
LspDiagnostic(range, c, message, related_information) ==
    [range               |-> range,
     severity            |-> c.severity,
     code                |-> c.code,
     source              |-> Some(c.source),
     message             |-> message,
     related_information |-> IF Len(related_information) = 0 THEN None
                             ELSE Some(related_information),
     tags                |-> IF Len(c.tags) = 0 THEN None ELSE Some(c.tags)]

\* Faulty variant: the label is put before the message.
PrimaryMessage_LabelFirst(c, primary_span) ==
    IF c.needs_primary_span_label /\ IsSome(primary_span.label)
    THEN Unwrap(primary_span.label) \o "\n" \o c.message
    ELSE c.message

\* The message of the closure: the label on a new line when it is needed.
PrimaryMessage(c, primary_span) ==
    IF c.needs_primary_span_label /\ IsSome(primary_span.label)
    THEN c.message \o "\n" \o Unwrap(primary_span.label)
    ELSE c.message

\* !is_from_macro(&primary_span.file_name) && primary_span.expansion.is_some()
OriginatedFromMacro(primary_span) ==
    ~is_from_macro(primary_span.file_name) /\ IsSome(primary_span.expansion)

\* Faulty variant: the breadcrumb is assigned, not pushed.
PushBreadcrumb_Assign(related_information, primary_span, def_loc) ==
    IF OriginatedFromMacro(primary_span)
    THEN <<[location |-> def_loc, message |-> BREADCRUMB]>>
    ELSE related_information

\* related_information after the closure ran for primary_span, def_loc the
\* naive location of the span.
PushBreadcrumb(related_information, primary_span, def_loc) ==
    IF OriginatedFromMacro(primary_span)
    THEN Append(related_information, [location |-> def_loc, message |-> BREADCRUMB])
    ELSE related_information

\* The closure panics when one of the two locations it computes does.
ClosurePanics(primary_span, loc, def_loc) ==
    IsPanic(loc) \/ (OriginatedFromMacro(primary_span) /\ IsPanic(def_loc))

\* Faulty variant: the vector is collected back to front.
Collect_Reversed(first_panics, first, rest) ==
    IF first_panics \/ rest.panic THEN [panic |-> TRUE, diagnostics |-> <<>>]
    ELSE [panic |-> FALSE, diagnostics |-> rest.diagnostics \o <<first>>]

\* The collected vector: the closure's value for the first span before
\* those of the rest, a panic anywhere being the panic of the call.
Collect(first_panics, first, rest) ==
    IF first_panics \/ rest.panic THEN [panic |-> TRUE, diagnostics |-> <<>>]
    ELSE [panic |-> FALSE, diagnostics |-> <<first>> \o rest.diagnostics]

RECURSIVE PrimarySpans(_, _, _, _)

\* The closure on primary_span, then on the spans after it; related is the
\* related_information the closure leaves.
Closure(primary_spans, root, c, loc, def_loc, related) ==
    Collect(ClosurePanics(Head(primary_spans), loc, def_loc),
            [location   |-> loc,
             diagnostic |-> LspDiagnostic(loc.range, c,
                                          PrimaryMessage(c, Head(primary_spans)),
                                          related),
             fixes      |-> c.fixes],
            PrimarySpans(Tail(primary_spans), root, related, c))

\* primary_spans.iter().map(|primary_span| ...).collect(): the closure
\* pushes onto the related_information of the enclosing function, so what
\* it pushed for one primary span is there for the next ones.
PrimarySpans(primary_spans, root, related_information, c) ==
    IF Len(primary_spans) = 0 THEN [panic |-> FALSE, diagnostics |-> <<>>]
    ELSE Closure(primary_spans, root, c,
                 map_span_to_location(Head(primary_spans), root),
                 map_span_to_location_naive(Head(primary_spans), root),
                 PushBreadcrumb(related_information, Head(primary_spans),
                                map_span_to_location_naive(Head(primary_spans), root)))

\* source and code: an RFC 2103 scoped lint gives both, else "rustc" and
\* the code as it is. code is the Option<String> of rd.code.
ScopedCode(code) == IF IsSome(code) THEN SplitScoped(Unwrap(code), <<>>) ELSE <<>>

\* Faulty variant: any code with a delimiter counts as scoped.
SourceOf_AnyDelimiter(scoped_code) ==
    IF Len(scoped_code) >= 2 THEN scoped_code[1] ELSE <<"rustc">>

SourceOf(scoped_code) ==
    IF Len(scoped_code) = 2 THEN scoped_code[1] ELSE <<"rustc">>

\* Faulty variant: a root without code is given the empty code.
CodeOf_EmptyWhenAbsent(code, scoped_code) ==
    IF Len(scoped_code) = 2 THEN Some(scoped_code[2])
    ELSE IF IsNone(code) THEN Some(<<>>)
    ELSE code

CodeOf(code, scoped_code) ==
    IF Len(scoped_code) = 2 THEN Some(scoped_code[2]) ELSE code

RootCode(d) == IF IsSome(d.code) THEN Some(Unwrap(d.code).code) ELSE None

\* Faulty variant: the unused check only fills in a severity the level did not give.
SeverityOf_LevelFirst(d) ==
    IF IsSome(map_level_to_severity(d.level)) THEN map_level_to_severity(d.level)
    ELSE IF is_unused_or_unnecessary(d) THEN Some("Hint")
    ELSE None

SeverityOf(d) ==
    IF is_unused_or_unnecessary(d) THEN Some("Hint")
    ELSE map_level_to_severity(d.level)

\* Faulty variant: the deprecated tag is lost.
TagsOf_UnusedOnly(d) ==
    IF is_unused_or_unnecessary(d) THEN <<"Unnecessary">> ELSE <<>>

TagsOf(d) ==
    (IF is_unused_or_unnecessary(d) THEN <<"Unnecessary">> ELSE <<>>)
    \o (IF is_deprecated(d) THEN <<"Deprecated">> ELSE <<>>)

\* What the closure captures, l the locals after the two loops.
Captured(d, l) ==
    [severity |-> SeverityOf(d),
     code     |-> CodeOf(RootCode(d), ScopedCode(RootCode(d))),
     source   |-> SourceOf(ScopedCode(RootCode(d))),
     tags     |-> TagsOf(d),
     message  |-> l.message,
     fixes    |-> l.fixes,
     needs_primary_span_label |-> l.needs_primary_span_label]

\* The function after its two loops, l the locals they leave.
AfterLoops(d, root, primary_spans, l) ==
    IF l.panic THEN [panic |-> TRUE, diagnostics |-> <<>>]
    ELSE PrimarySpans(primary_spans, root, l.related_information, Captured(d, l))

\* Faulty variant: without a primary span the diagnostic is put at every span.
WithPrimary_BestEffort(d, root, primary_spans) ==
    AfterLoops(d, root, IF Len(primary_spans) = 0 THEN d.spans ELSE primary_spans,
        Children(d.children, root,
            SecondarySpans(Filter(d.spans, IsSecondary), root, InitialLocals(d))))

\* Faulty variant: the two loops run before the primary spans are looked at.
WithPrimary_LoopsFirst(d, root, primary_spans) ==
    AfterLoops(d, root, primary_spans,
        Children(d.children, root,
            SecondarySpans(Filter(d.spans, IsSecondary), root, InitialLocals(d))))

WithPrimary(d, root, primary_spans) ==
    IF Len(primary_spans) = 0 THEN [panic |-> FALSE, diagnostics |-> <<>>]
    ELSE AfterLoops(d, root, primary_spans,
            Children(d.children, root,
                SecondarySpans(Filter(d.spans, IsSecondary), root, InitialLocals(d))))

\* The result of the call: [panic |-> TRUE] when it panicked, else the
\* returned Vec<MappedRustDiagnostic>.
map_rust_diagnostic_to_lsp(d, root) ==
    WithPrimary(d, root, Filter(d.spans, IsPrimary))

\* ------------------------------------------------------------ inputs
\* ra_flycheck::DiagnosticSpan, with the fields the translation reads.
Span(file_name, line, column, is_primary, label, expansion) ==
    [file_name                |-> file_name,
     line_start               |-> line,
     line_end                 |-> line,
     column_start             |-> column,
     column_end               |-> column + 1,
     is_primary               |-> is_primary,
     label                    |-> label,
     suggested_replacement    |-> None,
     suggestion_applicability |-> None,
     expansion                |-> expansion]

\* DiagnosticSpanMacroExpansion: the call-site span (def_site_span and
\* macro_decl_name are never read).
Expansion(call_site) == [span |-> call_site, macro_decl_name |-> "m!"]

WithFix(sp, applicability, replacement) ==
    [sp EXCEPT !.suggestion_applicability = applicability,
               !.suggested_replacement = replacement]

\* ra_flycheck::Diagnostic.
Diagnostic(message, code, level, spans, children) ==
    [message  |-> message,
     code     |-> code,
     level    |-> level,
     spans    |-> spans,
     children |-> children]

DiagnosticCode(code) == Some([code |-> code, explanation |-> None])

\* All sequences over S of length at most n.
SeqsUpTo(S, n) == UNION {[1..k -> S] : k \in 0..n}

FileA == <<"a.rs">>
FileB == <<"src", "/", "b.rs">>
FileAbs == <<"/", "lib", "/", "c.rs">>
FileMacro == <<"<", "m", " ", "macros", ">">>
FileHalf == <<"<", "m">>

UnixRoot == <<"/", "ws">>
RelativeRoot == <<"ws">>

\* The spans of a root diagnostic: primary spans at lines 1..MaxLine of a.rs,
\* with and without a label; a primary span inside a macro whose call site is
\* in a real file; a primary span in a macro frame; secondary spans.
PrimaryPlainSpans ==
    {Span(FileA, line, 1, TRUE, label, None) :
        line \in 1..MaxLine, label \in {None, Some("label")}}

PrimaryMacroSpans ==
    {Span(FileB, 7, 3, TRUE, Some("in macro"), Some(Expansion(Span(FileA, 9, 5, FALSE, None, None)))),
     Span(FileMacro, 4, 2, TRUE, None, Some(Expansion(Span(FileB, 8, 1, FALSE, None, None))))}

SecondarySpanPool ==
    {Span(FileB, 5, 1, FALSE, Some("secondary"), None),
     Span(FileB, 6, 1, FALSE, None, None),
     Span(FileMacro, 4, 2, FALSE, Some("expanded"),
          Some(Expansion(Span(FileA, 3, 3, FALSE, None, None))))}

RootSpanPool == PrimaryPlainSpans \cup PrimaryMacroSpans \cup SecondarySpanPool

\* The children of a root diagnostic: a spanless one (a message line), one
\* with a primary span and no suggestion (related information) and one with a
\* machine-applicable replacement (a fix).
ChildPool ==
    {Diagnostic("note: expected", None, "Note", <<>>, <<>>),
     Diagnostic("defined here", None, "Note",
                <<Span(FileB, 2, 1, TRUE, None, None)>>, <<>>),
     Diagnostic("remove this", None, "Help",
                <<WithFix(Span(FileA, 1, 1, TRUE, None, None),
                          Some("MachineApplicable"), Some(""))>>, <<>>)}

Roots ==
    {Diagnostic("mismatched types", code, "Error", spans, children) :
        code \in {None, DiagnosticCode(<<"dead_code">>)},
        spans \in SeqsUpTo(RootSpanPool, MaxSpans),
        children \in SeqsUpTo(ChildPool, MaxChildren)}

NoDiagnostic == Diagnostic("", None, "Unknown", <<>>, <<>>)
NoSpan == Span(<<>>, 1, 1, FALSE, None, None)
NotReturned == [panic |-> FALSE, diagnostics |-> <<>>]

\* No call of url_from_path_with_drive_lowercasing of its own, no resolver
\* walk, no call of the code generator's helpers.
NoUrlCall == url_path = <<>> /\ url_result = [panic |-> FALSE, result |-> None]
NoWalk == stack = <<>> /\ calls = <<>>
\* No file at the path, in a directory where one can be created.
Missing ==
    [exists |-> FALSE, readable |-> FALSE, writable |-> TRUE, utf8 |-> TRUE,
     contents |-> <<>>]
NoXtaskCall ==
    /\ disk_file = Missing
    /\ log = <<>>
    /\ source_text = <<>>
    /\ allow_empty = FALSE
    /\ blocks = <<>>

\* ------------------------------------------------------------ the call
\* One call of map_rust_diagnostic_to_lsp on a root diagnostic of Roots.
Init ==
    /\ rd \in Roots
    /\ span = NoSpan
    /\ workspace_root = UnixRoot
    /\ target_windows = FALSE
    /\ overflow_checks = TRUE
    /\ mapped = NotReturned
    /\ location = None
    /\ naive = None
    /\ pc = "call"
    /\ NoUrlCall /\ NoWalk /\ NoXtaskCall

Translate ==
    /\ pc = "call"
    /\ mapped' = map_rust_diagnostic_to_lsp(rd, workspace_root)
    /\ pc' = "done"
    /\ UNCHANGED <<rd, span, workspace_root, target_windows, overflow_checks,
                   location, naive>>
    /\ UNCHANGED <<url_vars, walk_vars, xtask_vars>>

Next == Translate

Spec == Init /\ [][Next]_vars

\* ------------------------------------------------------------ severity, tags, source and code
\* The root diagnostics of SevRoots: every level, with the codes of SevCodes,
\* on a few shapes of spans and children.
CodeAlphabet == {":", "x", "deprecated"}

NamedCodes ==
    {<<c>> : c \in UnusedCodes \cup {"deprecated", "E0308"}}
    \cup {<<"clippy", ":", ":", "trivially_copy_pass_by_ref">>,
          <<"ns", ":", ":", "dead_code">>,
          <<"ns", ":", ":", "deprecated">>,
          <<"a", ":", ":", "b", ":", ":", "c">>}

SevCodes ==
    {None} \cup {DiagnosticCode(c) : c \in NamedCodes \cup SeqsUpTo(CodeAlphabet, MaxCodeLen)}

SevPrimary == Span(FileA, 1, 1, TRUE, Some("label"), None)
SevSecondary == Span(FileB, 5, 1, FALSE, Some("secondary"), None)
SevMacro ==
    Span(FileB, 7, 3, TRUE, None, Some(Expansion(Span(FileA, 9, 5, FALSE, None, None))))

SevSpanLists ==
    {<<>>, <<SevSecondary>>, <<SevPrimary>>, <<SevSecondary, SevPrimary, SevMacro>>}

SevChildLists ==
    {<<>>,
     <<Diagnostic("internal", DiagnosticCode(<<"dead_code">>), "Ice", <<>>, <<>>)>>,
     <<Diagnostic("try", DiagnosticCode(<<"deprecated">>), "Help",
                  <<Span(FileA, 2, 1, TRUE, None, None)>>, <<>>)>>,
     <<Diagnostic("unknown", None, "Unknown", <<>>, <<>>),
       Diagnostic("remove", DiagnosticCode(<<"unused_imports">>), "Warning",
                  <<WithFix(Span(FileA, 1, 1, TRUE, None, None),
                            Some("MachineApplicable"), Some(""))>>, <<>>)>>}

SevRoots ==
    {Diagnostic("unused", code, level, spans, children) :
        code \in SevCodes, level \in Levels,
        spans \in SevSpanLists, children \in SevChildLists}

\* The caller receives a diagnostic of the check run and hands it to
\* map_rust_diagnostic_to_lsp.
InitSev ==
    /\ rd = NoDiagnostic
    /\ span = NoSpan
    /\ workspace_root = UnixRoot
    /\ target_windows = FALSE
    /\ overflow_checks = TRUE
    /\ mapped = NotReturned
    /\ location = None
    /\ naive = None
    /\ pc = "idle"
    /\ NoUrlCall /\ NoWalk /\ NoXtaskCall

Receive ==
    /\ pc = "idle"
    /\ rd' \in SevRoots
    /\ pc' = "call"
    /\ UNCHANGED <<span, workspace_root, target_windows, overflow_checks,
                   mapped, location, naive>>
    /\ UNCHANGED <<url_vars, walk_vars, xtask_vars>>

NextSev == Receive \/ Translate

SpecSev == InitSev /\ [][NextSev]_vars

\* ------------------------------------------------------------ span resolution
\* One call of map_span_to_location or of map_span_to_location_naive on a
\* span of SpanInputs.
SpanFiles == {FileA, FileB, FileAbs, FileMacro, FileHalf}
ChainFiles == {FileA, FileMacro, FileHalf}

\* The primary span of snap_rustc_incompatible_type_for_trait.
SnapSpan ==
    [Span(<<"compiler", "/", "ty", "/", "list_iter.rs">>, 52, 5, TRUE,
          Some("types differ in mutability"), None) EXCEPT !.column_end = 48]

\* Spans without expansion, every bound from 0 (not a 1-based bound) to MaxLine.
NaiveSpans ==
    {SnapSpan} \cup
    {[Span(file, 1, 1, FALSE, None, None) EXCEPT
        !.line_start = ls, !.column_start = cs, !.line_end = le, !.column_end = ce] :
        file \in SpanFiles, ls \in 0..MaxLine, cs \in 0..MaxLine,
        le \in 0..MaxLine, ce \in 0..MaxLine}

ChainBase == {Span(file, line, line, FALSE, None, None) : file \in ChainFiles, line \in 1..MaxLine}

\* The spans whose chain of expansions has at most depth call sites.
RECURSIVE ChainSpans(_)
ChainSpans(depth) ==
    IF depth = 0 THEN ChainBase
    ELSE ChainBase \cup
         {[sp EXCEPT !.expansion = Some(Expansion(call_site))] :
             sp \in ChainBase, call_site \in ChainSpans(depth - 1)}

SpanInputs == NaiveSpans \cup ChainSpans(MaxDepth)

InitSpan ==
    /\ rd = NoDiagnostic
    /\ span \in SpanInputs
    /\ workspace_root \in {UnixRoot, RelativeRoot}
    /\ target_windows = FALSE
    /\ overflow_checks \in BOOLEAN
    /\ mapped = NotReturned
    /\ location = None
    /\ naive = None
    /\ pc = "call"
    /\ NoUrlCall /\ NoWalk /\ NoXtaskCall

MapSpan ==
    /\ pc = "call"
    /\ location' = Some(map_span_to_location(span, workspace_root))
    /\ pc' = "done"
    /\ UNCHANGED <<rd, span, workspace_root, target_windows, overflow_checks,
                   mapped, naive>>
    /\ UNCHANGED <<url_vars, walk_vars, xtask_vars>>

MapSpanNaive ==
    /\ pc = "call"
    /\ naive' = Some(map_span_to_location_naive(span, workspace_root))
    /\ pc' = "done"
    /\ UNCHANGED <<rd, span, workspace_root, target_windows, overflow_checks,
                   mapped, location>>
    /\ UNCHANGED <<url_vars, walk_vars, xtask_vars>>

NextSpan == MapSpan \/ MapSpanNaive

SpecSpan == InitSpan /\ [][NextSpan]_vars

\* ------------------------------------------------------------ flattening
\* One call of map_rust_diagnostic_to_lsp on a root of FlatRoots: primary
\* spans before, after and around secondary spans, a few lists of children,
\* under a workspace root that is absolute and one that is not.
FlatPrimaryPool ==
    {Span(FileA, 1, 1, TRUE, Some("label"), None),
     Span(FileA, 2, 1, TRUE, None, None),
     Span(FileAbs, 4, 1, TRUE, Some("absolute"), None),
     Span(FileB, 7, 3, TRUE, Some("in macro"),
          Some(Expansion(Span(FileA, 9, 5, FALSE, None, None))))}

FlatSecondaryPool ==
    {Span(FileB, 5, 1, FALSE, Some("secondary"), None),
     Span(FileAbs, 6, 1, FALSE, Some("second"), None),
     Span(FileA, 8, 1, FALSE, None, None),
     Span(FileMacro, 4, 2, FALSE, Some("expanded"),
          Some(Expansion(Span(FileA, 3, 3, FALSE, None, None))))}

FlatSpanLists ==
    {primary \o secondary : primary \in SeqsUpTo(FlatPrimaryPool, MaxSpans),
                            secondary \in SeqsUpTo(FlatSecondaryPool, MaxSpans)}
    \cup
    {secondary \o primary : primary \in SeqsUpTo(FlatPrimaryPool, MaxSpans),
                            secondary \in SeqsUpTo(FlatSecondaryPool, MaxSpans)}

LineExpected == Diagnostic("expected type T", None, "Note", <<>>, <<>>)
LineFound == Diagnostic("found type U", None, "Note", <<>>, <<>>)

\* A child whose only span is not primary.
LineSecondaryOnly ==
    Diagnostic("see above", None, "Note",
               <<Span(FileAbs, 2, 2, FALSE, Some("here"), None)>>, <<>>)

RelatedChild ==
    Diagnostic("defined here", None, "Note",
               <<Span(FileAbs, 2, 1, TRUE, None, None)>>, <<>>)

FixChild ==
    Diagnostic("remove this", None, "Help",
               <<WithFix(Span(FileAbs, 1, 1, TRUE, None, None),
                         Some("MachineApplicable"), Some(""))>>, <<>>)

FlatChildLists ==
    {<<>>,
     <<LineExpected>>,
     <<RelatedChild, LineExpected, LineFound>>,
     <<LineFound, FixChild, LineExpected>>,
     <<LineSecondaryOnly>>,
     <<RelatedChild, FixChild>>}

FlatRoots ==
    {Diagnostic("mismatched types", DiagnosticCode(<<"E0308">>), "Error", spans, children) :
        spans \in FlatSpanLists,
        children \in FlatChildLists}

InitFlat ==
    /\ rd \in FlatRoots
    /\ span = NoSpan
    /\ workspace_root \in {UnixRoot, RelativeRoot}
    /\ target_windows = FALSE
    /\ overflow_checks = TRUE
    /\ mapped = NotReturned
    /\ location = None
    /\ naive = None
    /\ pc = "call"
    /\ NoUrlCall /\ NoWalk /\ NoXtaskCall

SpecFlat == InitFlat /\ [][Next]_vars

\* ------------------------------------------------------------ children of a root
\* One call of map_rust_diagnostic_to_lsp on a root of ChildRoots: with or
\* without a code, one primary span, with or without a secondary span, and
\* up to MaxChildren children of every classification.
MachineApplicable == Some("MachineApplicable")

FixA1 == WithFix(Span(FileA, 1, 1, TRUE, None, None), MachineApplicable, Some("x"))
FixB2 == WithFix(Span(FileB, 2, 1, TRUE, None, None), MachineApplicable, Some("y"))
FixA3 == WithFix(Span(FileA, 3, 1, TRUE, Some("unused"), None), MachineApplicable, Some(""))
UnspecifiedA4 == WithFix(Span(FileA, 4, 1, TRUE, None, None), Some("Unspecified"), Some("w"))
SecondaryFixA5 == WithFix(Span(FileA, 5, 1, FALSE, None, None), MachineApplicable, Some("q"))
FixInMacro ==
    WithFix(Span(FileMacro, 4, 2, TRUE, None,
                 Some(Expansion(Span(FileB, 8, 1, FALSE, None, None)))),
            MachineApplicable, Some("m"))

ChildKinds ==
    {LineExpected,
     RelatedChild,
     Diagnostic("try this", None, "Help",
                <<WithFix(Span(FileA, 2, 2, TRUE, None, None),
                          Some("MaybeIncorrect"), Some("y"))>>, <<>>),
     Diagnostic("no replacement", None, "Help",
                <<WithFix(Span(FileB, 2, 2, TRUE, None, None),
                          MachineApplicable, None)>>, <<>>),
     Diagnostic("no applicability", None, "Help",
                <<WithFix(Span(FileB, 3, 2, TRUE, None, None), None, Some("z"))>>, <<>>),
     Diagnostic("fill in", None, "Help",
                <<SecondaryFixA5,
                  WithFix(Span(FileB, 4, 2, TRUE, None, None),
                          Some("HasPlaceholders"), Some("_")),
                  UnspecifiedA4>>, <<>>),
     Diagnostic("expanded from", None, "Note",
                <<Span(FileMacro, 4, 2, TRUE, None,
                       Some(Expansion(Span(FileA, 9, 5, FALSE, None, None))))>>, <<>>),
     FixChild,
     Diagnostic("rename", None, "Help",
                <<FixA1, FixB2, FixA3, UnspecifiedA4, SecondaryFixA5>>, <<>>),
     Diagnostic("replace", None, "Help", <<UnspecifiedA4, FixA1>>, <<>>),
     Diagnostic("in macro", None, "Help", <<FixInMacro, FixB2>>, <<>>)}

ChildSpanLists ==
    {<<Span(FileA, 1, 1, TRUE, Some("label"), None)>>,
     <<Span(FileB, 5, 1, FALSE, Some("secondary"), None),
       Span(FileA, 1, 1, TRUE, None, None)>>,
     <<Span(FileB, 6, 1, FALSE, None, None),
       Span(FileA, 2, 1, TRUE, None, None)>>}

ChildRoots ==
    {Diagnostic("unused variable", code, "Warning", spans, children) :
        code \in {None, DiagnosticCode(<<"unused_variables">>)},
        spans \in ChildSpanLists,
        children \in SeqsUpTo(ChildKinds, MaxChildren)}

InitChild ==
    /\ rd \in ChildRoots
    /\ span = NoSpan
    /\ workspace_root = UnixRoot
    /\ target_windows = FALSE
    /\ overflow_checks = TRUE
    /\ mapped = NotReturned
    /\ location = None
    /\ naive = None
    /\ pc = "call"
    /\ NoUrlCall /\ NoWalk /\ NoXtaskCall

SpecChild == InitChild /\ [][Next]_vars

\* ------------------------------------------------------------ properties
Returned == pc = "done" /\ ~mapped.panic
Emitted == mapped.diagnostics

\* A synthetic macro frame: a file name that starts with '<' and ends with '>'.
SyntheticFrame(file_name) ==
    /\ Len(file_name) >= 1
    /\ file_name[1] = "<"
    /\ file_name[Len(file_name)] = ">"

PrimaryIndices(d) == {i \in 1..Len(d.spans) : d.spans[i].is_primary}

\* The index in d.spans of the n-th primary span.
NthPrimaryIndex(d, n) ==
    CHOOSE i \in PrimaryIndices(d) : Cardinality({j \in PrimaryIndices(d) : j <= i}) = n

NthPrimary(d, n) == d.spans[NthPrimaryIndex(d, n)]

\* The location of a span taken by itself: its file under the workspace
\* root, every bound less one.
PlainLocation(sp) ==
    [uri   |-> Unwrap(url_from_path_with_drive_lowercasing(PathPush(workspace_root, sp.file_name))),
     range |-> [start |-> [line |-> sp.line_start - 1, character |-> sp.column_start - 1],
                end   |-> [line |-> sp.line_end - 1, character |-> sp.column_end - 1]]]

RelatedList(entry) ==
    IF IsSome(entry.diagnostic.related_information)
    THEN Unwrap(entry.diagnostic.related_information)
    ELSE <<>>

TagList(entry) ==
    IF IsSome(entry.diagnostic.tags) THEN Unwrap(entry.diagnostic.tags) ELSE <<>>

\* The messages of the children whose index is in I, each on a new line.
RECURSIVE LinesFrom(_, _, _)
LinesFrom(d, I, k) ==
    IF k > Len(d.children) THEN ""
    ELSE (IF k \in I THEN "\n" \o d.children[k].message ELSE "")
         \o LinesFrom(d, I, k + 1)

\* The root message followed by the messages of some of the children.
CandidateBases(d) ==
    {d.message \o LinesFrom(d, I, 1) : I \in SUBSET (1..Len(d.children))}

\* C1: a root diagnostic without a span that has is_primary = true (an empty
\* span list included) is translated to the empty list, whatever its code,
\* its secondary spans and its children are: the call returns, and returns
\* no diagnostic at all.
C1_NoPrimarySpanNoDiagnostic ==
    (pc = "done" /\ PrimaryIndices(rd) = {})
        => (~mapped.panic /\ Len(mapped.diagnostics) = 0)

C1_Witness ==
    /\ pc = "done"
    /\ PrimaryIndices(rd) = {}
    /\ Len(rd.spans) = MaxSpans
    /\ \E i \in 1..Len(rd.spans) : IsSome(rd.spans[i].label)
    /\ Len(rd.children) >= 1
    /\ IsSome(rd.code)
    /\ Len(mapped.diagnostics) = 0

\* C2: a root with N >= 1 primary spans, none with expansion info, is
\* translated to exactly N diagnostics in the order of the primary spans, the
\* n-th at the location of the n-th primary span; all have the same severity,
\* code, source, related information, tags and fixes, and their messages are
\* one common message, followed or not by the span's own label on a new line.
C2_OnePerPrimarySpan ==
    (/\ pc = "done"
     /\ PrimaryIndices(rd) # {}
     /\ \A i \in PrimaryIndices(rd) : IsNone(rd.spans[i].expansion))
        => /\ ~mapped.panic
           /\ Len(Emitted) = Cardinality(PrimaryIndices(rd))
           /\ \A n \in 1..Len(Emitted) :
                /\ Emitted[n].location = PlainLocation(NthPrimary(rd, n))
                /\ Emitted[n].diagnostic.range = Emitted[n].location.range
           /\ \A n, m \in 1..Len(Emitted) :
                /\ Emitted[n].diagnostic.severity = Emitted[m].diagnostic.severity
                /\ Emitted[n].diagnostic.code = Emitted[m].diagnostic.code
                /\ Emitted[n].diagnostic.source = Emitted[m].diagnostic.source
                /\ Emitted[n].diagnostic.related_information
                      = Emitted[m].diagnostic.related_information
                /\ Emitted[n].diagnostic.tags = Emitted[m].diagnostic.tags
                /\ Emitted[n].fixes = Emitted[m].fixes
           /\ \E base \in CandidateBases(rd) :
                \A n \in 1..Len(Emitted) :
                    \/ Emitted[n].diagnostic.message = base
                    \/ /\ IsSome(NthPrimary(rd, n).label)
                       /\ Emitted[n].diagnostic.message
                             = base \o "\n" \o Unwrap(NthPrimary(rd, n).label)

\* Two primary spans at different places, one with a label and one without.
C2_Witness ==
    /\ Returned
    /\ Len(Emitted) = 2
    /\ \A i \in PrimaryIndices(rd) : IsNone(rd.spans[i].expansion)
    /\ Emitted[1].location # Emitted[2].location
    /\ Emitted[1].diagnostic.message # Emitted[2].diagnostic.message
    /\ Emitted[1].location = PlainLocation(NthPrimary(rd, 1))

NotBreadcrumb(related) == related.message # BREADCRUMB

\* The related information of an entry without its macro-origin breadcrumbs.
WithoutBreadcrumbs(entry) == SelectSeq(RelatedList(entry), NotBreadcrumb)

\* A primary span in a real file that carries expansion info.
HasMacroOrigin(d) ==
    \E i \in PrimaryIndices(d) :
        ~SyntheticFrame(d.spans[i].file_name) /\ IsSome(d.spans[i].expansion)

\* C3 as stated: for every root, primary spans with expansion info included,
\* all emitted diagnostics have the same related information, tags and fixes.
C3_AllShareRelated ==
    Returned =>
        \A n, m \in 1..Len(Emitted) :
            /\ Emitted[n].diagnostic.related_information
                  = Emitted[m].diagnostic.related_information
            /\ Emitted[n].diagnostic.tags = Emitted[m].diagnostic.tags
            /\ Emitted[n].fixes = Emitted[m].fixes

\* C3 (amended): for every root, all emitted diagnostics have the same tags
\* and fixes, and the same related information but for the macro-origin
\* breadcrumb entries; they have the very same related information when no
\* primary span is a real-file span with expansion info.
C3_ShareAllButBreadcrumbs ==
    Returned =>
        \A n, m \in 1..Len(Emitted) :
            /\ Emitted[n].diagnostic.tags = Emitted[m].diagnostic.tags
            /\ Emitted[n].fixes = Emitted[m].fixes
            /\ WithoutBreadcrumbs(Emitted[n]) = WithoutBreadcrumbs(Emitted[m])
            /\ ~HasMacroOrigin(rd) =>
                    Emitted[n].diagnostic.related_information
                        = Emitted[m].diagnostic.related_information

\* Two diagnostics of one root, one of them for a span inside a macro, whose
\* related information differs only in the breadcrumb, with a tag and a fix.
C3_Witness ==
    /\ Returned
    /\ Len(Emitted) = 2
    /\ HasMacroOrigin(rd)
    /\ RelatedList(Emitted[1]) # RelatedList(Emitted[2])
    /\ Len(WithoutBreadcrumbs(Emitted[1])) >= 1
    /\ Len(TagList(Emitted[1])) >= 1
    /\ Len(Emitted[1].fixes) >= 1

\* The code string of the root, none when the root has no code.
RootCodeIs(d, c) == IsSome(d.code) /\ Unwrap(d.code).code = <<c>>

RootCodeUnused(d) ==
    \E c \in {"dead_code", "unknown_lints", "unreachable_code", "unused_attributes",
              "unused_imports", "unused_macros", "unused_variables"} : RootCodeIs(d, c)

\* The severity the level mapping gives a level.
LevelSeverity(level) ==
    CASE level \in {"Ice", "Error"} -> <<"Error">>
      [] level = "Warning"          -> <<"Warning">>
      [] level = "Note"             -> <<"Information">>
      [] level = "Help"             -> <<"Hint">>
      [] level = "Unknown"          -> <<>>

\* C4: when the code of the root is not in the unused set, every emitted
\* diagnostic has the severity that the level of the root maps to (Ice and
\* Error: Error, Warning: Warning, Note: Information, Help: Hint, Unknown:
\* none), whatever the levels of the children are.
C4_SeverityFromRootLevel ==
    (Returned /\ ~RootCodeUnused(rd))
        => \A n \in 1..Len(Emitted) :
              Emitted[n].diagnostic.severity = LevelSeverity(rd.level)

\* An internal compiler error with a Help child, reported as an Error.
C4_Witness ==
    /\ Returned
    /\ Len(Emitted) >= 1
    /\ ~RootCodeUnused(rd)
    /\ rd.level = "Ice"
    /\ \E k \in 1..Len(rd.children) : rd.children[k].level = "Help"
    /\ Emitted[1].diagnostic.severity = <<"Error">>

\* C5: when the code of the root is in the unused set, every emitted
\* diagnostic has severity Hint and the tag Unnecessary, at every level.
C5_UnusedIsHintAndUnnecessary ==
    (Returned /\ RootCodeUnused(rd))
        => \A n \in 1..Len(Emitted) :
              /\ Emitted[n].diagnostic.severity = <<"Hint">>
              /\ \E t \in 1..Len(TagList(Emitted[n])) :
                    TagList(Emitted[n])[t] = "Unnecessary"

\* An unused import reported by an internal compiler error: a Hint.
C5_Witness ==
    /\ Returned
    /\ Len(Emitted) >= 2
    /\ RootCodeIs(rd, "unused_imports")
    /\ rd.level = "Ice"
    /\ Emitted[2].diagnostic.severity = <<"Hint">>
    /\ Emitted[2].diagnostic.tags = <<<<"Unnecessary">>>>

\* C6: when the code of the root is "deprecated", every emitted diagnostic
\* has the tag Deprecated and the severity that the level of the root maps to.
C6_DeprecatedTagKeepsSeverity ==
    (Returned /\ RootCodeIs(rd, "deprecated"))
        => \A n \in 1..Len(Emitted) :
              /\ Emitted[n].diagnostic.severity = LevelSeverity(rd.level)
              /\ \E t \in 1..Len(TagList(Emitted[n])) :
                    TagList(Emitted[n])[t] = "Deprecated"

\* A deprecation warning: a Warning with the tag Deprecated.
C6_Witness ==
    /\ Returned
    /\ Len(Emitted) >= 1
    /\ RootCodeIs(rd, "deprecated")
    /\ rd.level = "Warning"
    /\ Emitted[1].diagnostic.severity = <<"Warning">>
    /\ Emitted[1].diagnostic.tags = <<<<"Deprecated">>>>

HasTag(entry, tag) ==
    \E t \in 1..Len(TagList(entry)) : TagList(entry)[t] = tag

BothTags(entry) == HasTag(entry, "Unnecessary") /\ HasTag(entry, "Deprecated")

\* C7 as stated: some root diagnostic that the caller can hand over is
\* translated to a diagnostic that carries both the tag Unnecessary and the
\* tag Deprecated.
C7_BothTagsPossible ==
    pc = "idle" =>
        \E d \in SevRoots :
            \E n \in 1..Len(map_rust_diagnostic_to_lsp(d, workspace_root).diagnostics) :
                BothTags(map_rust_diagnostic_to_lsp(d, workspace_root).diagnostics[n])

\* C7 (amended): the two checks are made one after the other on every root,
\* but both compare the one code string of the root, which cannot be
\* "deprecated" and a member of the unused set at once: no emitted diagnostic
\* carries both tags, and the tags are none, Unnecessary alone or Deprecated
\* alone.
C7_NeverBothTags ==
    Returned =>
        \A n \in 1..Len(Emitted) :
            /\ ~BothTags(Emitted[n])
            /\ Emitted[n].diagnostic.tags
                  \in {<<>>, <<<<"Unnecessary">>>>, <<<<"Deprecated">>>>}
            /\ HasTag(Emitted[n], "Unnecessary") <=> RootCodeUnused(rd)
            /\ HasTag(Emitted[n], "Deprecated") <=> RootCodeIs(rd, "deprecated")

\* Both checks have run on a deprecated root: one tag only.
C7_Witness ==
    /\ Returned
    /\ Len(Emitted) >= 1
    /\ RootCodeIs(rd, "deprecated")
    /\ HasTag(Emitted[1], "Deprecated")
    /\ ~HasTag(Emitted[1], "Unnecessary")

\* The places of the delimiter "::" in a code string.
Delimiters(s) == {i \in 1..(Len(s) - 1) : s[i] = ":" /\ s[i + 1] = ":"}

FirstDelimiter(s) == CHOOSE i \in Delimiters(s) : \A j \in Delimiters(s) : i <= j

AfterFirstDelimiter(s) == SubSeq(s, FirstDelimiter(s) + 2, Len(s))

\* The code splits into exactly two parts: a delimiter, and none after it.
TwoParts(s) == Delimiters(s) # {} /\ Delimiters(AfterFirstDelimiter(s)) = {}

\* C8: when the code of the root splits on "::" into exactly two parts, the
\* emitted source is the first part and the emitted code the second; in
\* every other case the source is "rustc" and the code is emitted as it is
\* (none when the root has none). The source is always present.
C8_SourceAndCode ==
    Returned =>
        \A n \in 1..Len(Emitted) :
            IF IsSome(rd.code) /\ TwoParts(Unwrap(rd.code).code)
            THEN /\ Emitted[n].diagnostic.source
                      = <<SubSeq(Unwrap(rd.code).code, 1,
                                 FirstDelimiter(Unwrap(rd.code).code) - 1)>>
                 /\ Emitted[n].diagnostic.code
                      = <<AfterFirstDelimiter(Unwrap(rd.code).code)>>
            ELSE /\ Emitted[n].diagnostic.source = <<<<"rustc">>>>
                 /\ Emitted[n].diagnostic.code
                      = (IF IsSome(rd.code) THEN <<Unwrap(rd.code).code>> ELSE <<>>)

\* The clippy lint of snap_clippy_pass_by_ref: source clippy, code the lint.
C8_Witness ==
    /\ Returned
    /\ Len(Emitted) >= 1
    /\ IsSome(rd.code)
    /\ Unwrap(rd.code).code = <<"clippy", ":", ":", "trivially_copy_pass_by_ref">>
    /\ Emitted[1].diagnostic.source = <<<<"clippy">>>>
    /\ Emitted[1].diagnostic.code = <<<<"trivially_copy_pass_by_ref">>>>

\* ------------------------------------------------------------ C9
NaiveReturned == pc = "done" /\ IsSome(naive)

OneBased(sp) ==
    /\ sp.line_start >= 1
    /\ sp.column_start >= 1
    /\ sp.line_end >= 1
    /\ sp.column_end >= 1

\* The URL of the file obtained by joining the workspace root with file_name.
JoinedUrl(file_name) ==
    url_from_path_with_drive_lowercasing(PathPush(workspace_root, file_name))

\* C9: for a span whose four bounds are all >= 1, in a file whose joined path
\* has a file URL, map_span_to_location_naive returns, with and without
\* overflow checks, the location in that file whose range is
\* (line_start-1, column_start-1)..(line_end-1, column_end-1).
C9_NaiveSubtractsOne ==
    (NaiveReturned /\ OneBased(span) /\ IsSome(JoinedUrl(span.file_name))) =>
        Unwrap(naive) =
            [uri   |-> Unwrap(JoinedUrl(span.file_name)),
             range |-> [start |-> [line      |-> span.line_start - 1,
                                   character |-> span.column_start - 1],
                        end   |-> [line      |-> span.line_end - 1,
                                   character |-> span.column_end - 1]]]

\* line_start = 52 and column_start = 5 give the position (51, 4), with
\* overflow checks, in compiler/ty/list_iter.rs under the workspace root.
C9_Witness ==
    /\ NaiveReturned
    /\ overflow_checks
    /\ span = SnapSpan
    /\ workspace_root = UnixRoot
    /\ ~IsPanic(Unwrap(naive))
    /\ Unwrap(naive).uri = <<"file", ":", "/", "/", "/", "ws", "/",
                              "compiler", "/", "ty", "/", "list_iter.rs">>
    /\ Unwrap(naive).range.start = [line |-> 51, character |-> 4]
    /\ Unwrap(naive).range.end = [line |-> 51, character |-> 47]

\* ------------------------------------------------------------ C10
Resolved == pc = "done" /\ IsSome(location)

\* The call sites of the chain of expansions of sp, innermost first.
RECURSIVE CallSites(_)
CallSites(sp) ==
    IF IsSome(sp.expansion)
    THEN <<Unwrap(sp.expansion).span>> \o CallSites(Unwrap(sp.expansion).span)
    ELSE <<>>

LastCallSite(sp) == Last(CallSites(sp))

\* The frames of the chain: the span and its call sites.
Frames(sp) == <<sp>> \o CallSites(sp)

\* C10: for a span with a chain of N >= 1 call sites whose last call site is
\* in a file that is not a synthetic macro frame, map_span_to_location
\* returns the naive location of that last call site, and when it returns a
\* location, its file is not that of any synthetic frame of the chain.
C10_ResolvesToLastCallSite ==
    (/\ Resolved
     /\ Len(CallSites(span)) >= 1
     /\ ~SyntheticFrame(LastCallSite(span).file_name)) =>
        /\ Unwrap(location) = map_span_to_location_naive(LastCallSite(span), workspace_root)
        /\ ~IsPanic(Unwrap(location)) =>
              \A i \in 1..Len(Frames(span)) :
                  SyntheticFrame(Frames(span)[i].file_name) =>
                      <<Unwrap(location).uri>> # JoinedUrl(Frames(span)[i].file_name)

\* A chain of depth 2 from a synthetic frame, through a call site in a real
\* file, to a last call site in a real file on another line.
C10_Witness ==
    /\ Resolved
    /\ ~IsPanic(Unwrap(location))
    /\ Len(CallSites(span)) = 2
    /\ SyntheticFrame(span.file_name)
    /\ ~SyntheticFrame(CallSites(span)[1].file_name)
    /\ ~SyntheticFrame(CallSites(span)[2].file_name)
    /\ CallSites(span)[1].line_start # CallSites(span)[2].line_start
    /\ Unwrap(location).range.start.line = CallSites(span)[2].line_start - 1

\* ------------------------------------------------------------ C11
InRealFile(sp) == ~SyntheticFrame(sp.file_name)

\* The call sites of the chain that are in a real file, innermost first.
RealCallSites(sp) == SelectSeq(CallSites(sp), InRealFile)

\* C11 as stated: map_span_to_location returns the location of the first call
\* site of the chain that is in a real file, also when that call site has
\* expansion info of its own.
C11_FirstRealCallSite ==
    (Resolved /\ Len(RealCallSites(span)) >= 1) =>
        Unwrap(location) = map_span_to_location_naive(RealCallSites(span)[1], workspace_root)

\* C11 (amended): the first call site in a real file is resolved in its turn,
\* so its own expansion is followed: map_span_to_location returns the naive
\* location of the last call site of the chain that is in a real file, which
\* is the first one only when no call site after it is in a real file; with
\* no call site in a real file it returns the naive location of the span.
C11_LastRealCallSite ==
    Resolved =>
        IF Len(RealCallSites(span)) >= 1
        THEN Unwrap(location)
                = map_span_to_location_naive(Last(RealCallSites(span)), workspace_root)
        ELSE Unwrap(location) = map_span_to_location_naive(span, workspace_root)

\* The chain of snap_macro_compiler_error: a span in a real file, expanded at
\* a call site in a real file that is itself expanded at another one.
C11_Witness ==
    /\ Resolved
    /\ ~IsPanic(Unwrap(location))
    /\ InRealFile(span)
    /\ Len(CallSites(span)) = 2
    /\ Len(RealCallSites(span)) = 2
    /\ CallSites(span)[1].line_start # CallSites(span)[2].line_start
    /\ Unwrap(location) = map_span_to_location_naive(CallSites(span)[2], workspace_root)
    /\ Unwrap(location) # map_span_to_location_naive(CallSites(span)[1], workspace_root)

\* ------------------------------------------------------------ C12
\* The children without a span that has is_primary = true.
MessageLineChildren(d) ==
    {k \in 1..Len(d.children) : PrimaryIndices(d.children[k]) = {}}

\* The root message followed, in child order, by the message of every child
\* without a primary span, each on a new line.
AccumulatedMessage(d) == d.message \o LinesFrom(d, MessageLineChildren(d), 1)

\* C12: when at least one child of the root has no primary span, wherever it
\* is among the children, the message of every emitted diagnostic is the root
\* message followed by "\n" and the message of each such child, in child
\* order, and nothing else: no label of a primary span is appended.
C12_MessageLinesReplaceLabel ==
    (Returned /\ MessageLineChildren(rd) # {}) =>
        \A n \in 1..Len(Emitted) :
            Emitted[n].diagnostic.message = AccumulatedMessage(rd)

\* A labelled primary span and two message lines after a child that is
\* related information: both lines, in order, and no label.
C12_Witness ==
    /\ Returned
    /\ Len(Emitted) >= 1
    /\ rd.children = <<RelatedChild, LineExpected, LineFound>>
    /\ IsSome(NthPrimary(rd, 1).label)
    /\ Emitted[1].diagnostic.message
          = "mismatched types" \o "\n" \o "expected type T" \o "\n" \o "found type U"

\* ------------------------------------------------------------ C13
\* A primary span with applicability MachineApplicable and a replacement.
Qualifies(sp) ==
    /\ sp.is_primary
    /\ sp.suggestion_applicability = <<"MachineApplicable">>
    /\ sp.suggested_replacement # <<>>

QualifyingIndices(child) == {i \in 1..Len(child.spans) : Qualifies(child.spans[i])}

ResolvedAt(sp) == map_span_to_location(sp, workspace_root)

\* The text edits of the qualifying spans of child from index i on that
\* resolve to the file u, in the order of the spans.
RECURSIVE EditsUnder(_, _, _)
EditsUnder(child, u, i) ==
    IF i > Len(child.spans) THEN <<>>
    ELSE (IF i \in QualifyingIndices(child) /\ ResolvedAt(child.spans[i]).uri = u
          THEN <<[range    |-> ResolvedAt(child.spans[i]).range,
                  new_text |-> child.spans[i].suggested_replacement[1]]>>
          ELSE <<>>)
         \o EditsUnder(child, u, i + 1)

FixUris(child) == {ResolvedAt(child.spans[i]).uri : i \in QualifyingIndices(child)}

\* The quick fix of a child with a qualifying span.
QuickFix(child) ==
    [title   |-> child.message,
     id      |-> <<>>,
     group   |-> <<>>,
     kind    |-> <<"quickfix">>,
     edit    |-> <<[changes          |-> <<[u \in FixUris(child) |-> EditsUnder(child, u, 1)]>>,
                    document_changes |-> <<>>]>>,
     command |-> <<>>]

\* The quick fixes of the children of d from index k on, in child order.
RECURSIVE QuickFixesFrom(_, _)
QuickFixesFrom(d, k) ==
    IF k > Len(d.children) THEN <<>>
    ELSE (IF QualifyingIndices(d.children[k]) # {}
          THEN <<QuickFix(d.children[k])>> ELSE <<>>)
         \o QuickFixesFrom(d, k + 1)

\* C13: every child with at least one primary span that has applicability
\* MachineApplicable and a replacement (the empty string included) gives
\* exactly one quick fix, titled with the message of the child, with one text
\* edit per qualifying span (the resolved range of the span, its replacement
\* as it is), grouped by the resolved file and in span order within a file;
\* the other spans of the child give no edit and the other children no fix.
C13_OneQuickFixPerFixChild ==
    Returned =>
        \A n \in 1..Len(Emitted) : Emitted[n].fixes = QuickFixesFrom(rd, 1)

\* The child "rename": three qualifying spans in two files, a primary span
\* that does not qualify and a secondary span with a replacement.
C13_Witness ==
    /\ Returned
    /\ Len(Emitted) = 1
    /\ Len(rd.children) = 2
    /\ rd.children[2].message = "rename"
    /\ QualifyingIndices(rd.children[1]) = {}
    /\ Len(Emitted[1].fixes) = 1
    /\ Emitted[1].fixes[1].title = "rename"
    /\ Cardinality(DOMAIN Unwrap(Unwrap(Emitted[1].fixes[1].edit).changes)) = 2
    /\ \E u \in DOMAIN Unwrap(Unwrap(Emitted[1].fixes[1].edit).changes) :
          /\ Len(Unwrap(Unwrap(Emitted[1].fixes[1].edit).changes)[u]) = 2
          /\ Unwrap(Unwrap(Emitted[1].fixes[1].edit).changes)[u][1].new_text = "x"
          /\ Unwrap(Unwrap(Emitted[1].fixes[1].edit).changes)[u][2].new_text = ""
          /\ Unwrap(Unwrap(Emitted[1].fixes[1].edit).changes)[u][2].range.start.line = 2

\* ------------------------------------------------------------ C14
\* The related information of the labelled secondary spans of d from index i
\* on, in span order.
RECURSIVE SecondaryEntriesFrom(_, _)
SecondaryEntriesFrom(d, i) ==
    IF i > Len(d.spans) THEN <<>>
    ELSE (IF ~d.spans[i].is_primary /\ d.spans[i].label # <<>>
          THEN <<[location |-> ResolvedAt(d.spans[i]), message |-> d.spans[i].label[1]]>>
          ELSE <<>>)
         \o SecondaryEntriesFrom(d, i + 1)

\* The first primary span of a child that has one.
FirstPrimary(child) ==
    child.spans[CHOOSE i \in PrimaryIndices(child) : \A j \in PrimaryIndices(child) : i <= j]

\* A child with a primary span and none that qualifies for a fix.
RelatedOnly(child) == PrimaryIndices(child) # {} /\ QualifyingIndices(child) = {}

\* The related information of the children of d from index k on.
RECURSIVE ChildEntriesFrom(_, _)
ChildEntriesFrom(d, k) ==
    IF k > Len(d.children) THEN <<>>
    ELSE (IF RelatedOnly(d.children[k])
          THEN <<[location |-> ResolvedAt(FirstPrimary(d.children[k])),
                  message  |-> d.children[k].message]>>
          ELSE <<>>)
         \o ChildEntriesFrom(d, k + 1)

\* C14: a child with a primary span and no primary span that has both
\* applicability MachineApplicable and a replacement gives no quick fix and
\* exactly one entry of related information, with the message of the child,
\* at the resolved location of its first primary span: the related
\* information of an emitted diagnostic is, after the entries of the
\* secondary spans and before the macro-origin entries, one entry per such
\* child in child order, and no fix has the message of such a child as title.
C14_RelatedWhenNoFix ==
    Returned =>
        \A n \in 1..Len(Emitted) :
            /\ WithoutBreadcrumbs(Emitted[n])
                  = SecondaryEntriesFrom(rd, 1) \o ChildEntriesFrom(rd, 1)
            /\ \A k \in 1..Len(rd.children) :
                  RelatedOnly(rd.children[k]) =>
                      \A f \in 1..Len(Emitted[n].fixes) :
                          Emitted[n].fixes[f].title # rd.children[k].message

\* The child "fill in": a secondary span with a machine-applicable
\* replacement, then primary spans with HasPlaceholders and Unspecified:
\* related information at the first primary span, and no fix.
C14_Witness ==
    /\ Returned
    /\ Len(Emitted) = 1
    /\ Len(rd.children) = 1
    /\ rd.children[1].message = "fill in"
    /\ Emitted[1].fixes = <<>>
    /\ Len(RelatedList(Emitted[1])) = 1
    /\ RelatedList(Emitted[1])[1].message = "fill in"
    /\ RelatedList(Emitted[1])[1].location.range.start = [line |-> 3, character |-> 1]

\* ------------------------------------------------------------ C15
\* The spans of d whose location the translation needs: the primary spans,
\* the labelled secondary spans and the primary spans of the children.
NeededSpans(d) ==
    {d.spans[i] : i \in {i \in 1..Len(d.spans) :
                            d.spans[i].is_primary \/ d.spans[i].label # <<>>}}
    \cup UNION {{d.children[k].spans[j] : j \in PrimaryIndices(d.children[k])} :
                    k \in 1..Len(d.children)}

\* Both the resolved and the naive location of the span exist.
Representable(sp) ==
    /\ ~IsPanic(ResolvedAt(sp))
    /\ ~IsPanic(map_span_to_location_naive(sp, workspace_root))

SecondaryLabels(d) ==
    {d.spans[i].label[1] : i \in {i \in 1..Len(d.spans) :
                                    ~d.spans[i].is_primary /\ d.spans[i].label # <<>>}}

\* C15: for a root with a primary span, the related information of every
\* emitted diagnostic starts with one entry per labelled secondary span of
\* the root, in span order, with the label as message and the resolved
\* location of the span; no entry after them stands for a secondary span, and
\* an unlabelled secondary span is not resolved: the call returns when every
\* other span is representable, whatever the unlabelled ones are.
C15_LabelledSecondarySpans ==
    /\ Returned =>
          \A n \in 1..Len(Emitted) :
              /\ Len(RelatedList(Emitted[n])) >= Len(SecondaryEntriesFrom(rd, 1))
              /\ SubSeq(RelatedList(Emitted[n]), 1, Len(SecondaryEntriesFrom(rd, 1)))
                    = SecondaryEntriesFrom(rd, 1)
              /\ \A r \in (Len(SecondaryEntriesFrom(rd, 1)) + 1)..Len(RelatedList(Emitted[n])) :
                    RelatedList(Emitted[n])[r].message \notin SecondaryLabels(rd)
    /\ (/\ pc = "done"
        /\ PrimaryIndices(rd) # {}
        /\ \A sp \in NeededSpans(rd) : Representable(sp))
          => /\ ~mapped.panic
             /\ Len(Emitted) >= 1

\* Under a relative workspace root: a primary span and a labelled secondary
\* span in a file with an absolute path, and an unlabelled secondary span
\* whose path has no file URL: one entry, and the call returns.
C15_Witness ==
    /\ Returned
    /\ workspace_root = RelativeRoot
    /\ Len(Emitted) = 1
    /\ \E i \in 1..Len(rd.spans) :
          /\ ~rd.spans[i].is_primary
          /\ rd.spans[i].label = <<>>
          /\ IsPanic(ResolvedAt(rd.spans[i]))
    /\ rd.children = <<>>
    /\ Len(RelatedList(Emitted[1])) = 1
    /\ RelatedList(Emitted[1])[1].message = "second"
    /\ RelatedList(Emitted[1])[1].location.range.start = [line |-> 5, character |-> 0]

\* ------------------------------------------------------------ C16
\* The label of the n-th primary span as a suffix of the message: nothing
\* when the span has no label or a child is a message line.
LabelSuffix(d, n) ==
    IF MessageLineChildren(d) = {} /\ NthPrimary(d, n).label # <<>>
    THEN "\n" \o NthPrimary(d, n).label[1]
    ELSE ""

\* C16: the message of the diagnostic emitted for a primary span is the
\* accumulated message (the root message, then the message lines), followed
\* by "\n" and the label of that span if and only if no child is a message
\* line and that span has a label; the label of another primary span is
\* never part of it.
C16_MessagePerPrimarySpan ==
    Returned =>
        \A n \in 1..Len(Emitted) :
            Emitted[n].diagnostic.message = AccumulatedMessage(rd) \o LabelSuffix(rd, n)

\* Two primary spans with different labels and no message line: each
\* message ends with the label of its own span.
C16_Witness ==
    /\ Returned
    /\ Len(Emitted) = 2
    /\ MessageLineChildren(rd) = {}
    /\ rd.children # <<>>
    /\ Emitted[1].diagnostic.message = "mismatched types" \o "\n" \o "absolute"
    /\ Emitted[2].diagnostic.message = "mismatched types" \o "\n" \o "label"

\* ------------------------------------------------------------ C17
IsBreadcrumb(related) == related.message = BREADCRUMB

\* The macro-origin entries of the related information of an entry.
Breadcrumbs(entry) == SelectSeq(RelatedList(entry), IsBreadcrumb)

\* C17: the diagnostic emitted for a primary span that is in a real file and
\* has expansion info contains exactly one entry "Error originated from macro
\* here", at the naive location of that span; the diagnostic emitted for any
\* other primary span contains no such entry.
C17_OwnBreadcrumbOnly ==
    Returned =>
        \A n \in 1..Len(Emitted) :
            IF InRealFile(NthPrimary(rd, n)) /\ NthPrimary(rd, n).expansion # <<>>
            THEN Breadcrumbs(Emitted[n])
                    = <<[location |-> map_span_to_location_naive(NthPrimary(rd, n), workspace_root),
                         message  |-> BREADCRUMB]>>
            ELSE Breadcrumbs(Emitted[n]) = <<>>

\* ------------------------------------------------------------ C18
\* The primary spans of d, up to the n-th, for which a macro-origin entry is
\* pushed.
MacroOriginsUpTo(d, n) ==
    {m \in 1..n : InRealFile(NthPrimary(d, m)) /\ NthPrimary(d, m).expansion # <<>>}

\* No related entry was collected when the n-th diagnostic is built.
NothingCollected(d, n) ==
    /\ SecondaryEntriesFrom(d, 1) = <<>>
    /\ ChildEntriesFrom(d, 1) = <<>>
    /\ MacroOriginsUpTo(d, n) = {}

\* C18: in every emitted diagnostic related_information is absent exactly
\* when no related entry was collected and tags is absent exactly when no tag
\* was added; neither is ever present and empty.
C18_AbsentWhenEmpty ==
    Returned =>
        \A n \in 1..Len(Emitted) :
            /\ Emitted[n].diagnostic.related_information # <<<<>>>>
            /\ Emitted[n].diagnostic.tags # <<<<>>>>
            /\ (Emitted[n].diagnostic.related_information = <<>>) <=> NothingCollected(rd, n)
            /\ (Emitted[n].diagnostic.tags = <<>>)
                  <=> (~RootCodeUnused(rd) /\ ~RootCodeIs(rd, "deprecated"))

\* A root with one primary span, no child and the code E0308: both absent.
C18_Witness ==
    /\ Returned
    /\ Len(Emitted) = 1
    /\ RootCodeIs(rd, "E0308")
    /\ rd.children = <<>>
    /\ Emitted[1].diagnostic.related_information = <<>>
    /\ Emitted[1].diagnostic.tags = <<>>

\* ------------------------------------------------------------ C19
\* A location that the translation of d computes has no file URL (the spans
\* of the roots have bounds >= 1, so a location fails on its path only): a
\* primary or labelled secondary span of the root, the naive location of a
\* primary span with a macro origin, a qualifying span of a child or the
\* first primary span of a child without one.
ResolvesUnrepresentable(d) ==
    \/ \E i \in 1..Len(d.spans) :
          \/ /\ d.spans[i].is_primary \/ d.spans[i].label # <<>>
             /\ IsPanic(ResolvedAt(d.spans[i]))
          \/ /\ d.spans[i].is_primary
             /\ InRealFile(d.spans[i])
             /\ d.spans[i].expansion # <<>>
             /\ IsPanic(map_span_to_location_naive(d.spans[i], workspace_root))
    \/ \E k \in 1..Len(d.children) :
          \/ \E j \in QualifyingIndices(d.children[k]) :
                IsPanic(ResolvedAt(d.children[k].spans[j]))
          \/ /\ RelatedOnly(d.children[k])
             /\ IsPanic(ResolvedAt(FirstPrimary(d.children[k])))

\* C19: when a path that the translation of a root with a primary span
\* resolves has no file URL, the call does not crash: it returns to its
\* caller, and with no diagnostic at all.
C19_ErrorOutcomeNoCrash ==
    (pc = "done" /\ PrimaryIndices(rd) # {} /\ ResolvesUnrepresentable(rd)) =>
        /\ ~mapped.panic
        /\ Len(Emitted) = 0

\* ------------------------------------------------------------ C20
\* A child none of whose spans has both an applicability and a replacement.
LacksSuggestion(child) ==
    \A j \in 1..Len(child.spans) :
        \/ child.spans[j].suggestion_applicability = <<>>
        \/ child.spans[j].suggested_replacement = <<>>

\* C20: for a root with a primary span whose paths are representable (its
\* bounds are >= 1), the call returns one diagnostic per primary span
\* whatever is absent, and what is absent only removes information: without
\* code no code is emitted, the source is "rustc", there is no tag and the
\* severity is that of the level; without label a primary span adds no
\* suffix to the message and a secondary span no related entry; a child
\* without replacement or without applicability gives no fix; without
\* children there is no fix and the message has no further line; without
\* expansion a primary span is located where it is.
C20_AbsenceRemovesInformation ==
    (pc = "done" /\ PrimaryIndices(rd) # {} /\ ~ResolvesUnrepresentable(rd)) =>
        /\ ~mapped.panic
        /\ Len(Emitted) = Cardinality(PrimaryIndices(rd))
        /\ \A n \in 1..Len(Emitted) :
              /\ rd.code = <<>> =>
                    /\ Emitted[n].diagnostic.code = <<>>
                    /\ Emitted[n].diagnostic.source = <<<<"rustc">>>>
                    /\ Emitted[n].diagnostic.tags = <<>>
                    /\ Emitted[n].diagnostic.severity = LevelSeverity(rd.level)
              /\ NthPrimary(rd, n).label = <<>> =>
                    Emitted[n].diagnostic.message = AccumulatedMessage(rd)
              /\ SecondaryLabels(rd) = {} =>
                    WithoutBreadcrumbs(Emitted[n]) = ChildEntriesFrom(rd, 1)
              /\ \A k \in 1..Len(rd.children) :
                    LacksSuggestion(rd.children[k]) =>
                        \A f \in 1..Len(Emitted[n].fixes) :
                            Emitted[n].fixes[f].title # rd.children[k].message
              /\ rd.children = <<>> =>
                    /\ Emitted[n].fixes = <<>>
                    /\ Emitted[n].diagnostic.message = rd.message \o LabelSuffix(rd, n)
              /\ NthPrimary(rd, n).expansion = <<>> =>
                    Emitted[n].location = PlainLocation(NthPrimary(rd, n))

\* A root without code, with an unlabelled secondary span and an unlabelled
\* primary span, and two children, one without replacement and one without
\* applicability: no code, no tag, no fix, the root message alone.
C20_Witness ==
    /\ Returned
    /\ rd.code = <<>>
    /\ Len(rd.spans) = 2
    /\ SecondaryLabels(rd) = {}
    /\ Len(rd.children) = 2
    /\ rd.children[1].message = "no replacement"
    /\ rd.children[2].message = "no applicability"
    /\ Len(Emitted) = 1
    /\ Emitted[1].diagnostic.code = <<>>
    /\ Emitted[1].diagnostic.tags = <<>>
    /\ Emitted[1].diagnostic.severity = <<"Warning">>
    /\ Emitted[1].diagnostic.message = "unused variable"
    /\ Emitted[1].fixes = <<>>
    /\ Len(RelatedList(Emitted[1])) = 2

\* ------------------------------------------------------------ paths to URLs
\* One call of url_from_path_with_drive_lowercasing, on a Windows and on a
\* Unix build. A path is a start (a prefix, a root, or nothing) followed by
\* up to MaxComponents components; a component may hold a colon (an NTFS
\* stream name) or a space.
MaxComponents == 2

PathStarts ==
    {[start |-> <<"C", ":", "\\">>, sep |-> "\\"],
     [start |-> <<"c", ":", "\\">>, sep |-> "\\"],
     [start |-> <<"D", ":", "/">>, sep |-> "/"],
     [start |-> <<"C", ":">>, sep |-> "\\"],
     [start |-> <<"\\", "\\", "?", "\\", "C", ":", "\\">>, sep |-> "\\"],
     [start |-> <<"\\", "\\", "localhost", "\\", "C$", "\\">>, sep |-> "\\"],
     [start |-> <<"/">>, sep |-> "/"],
     [start |-> <<>>, sep |-> "/"]}

PathNames == {<<"Test">>, <<"my_dir">>, <<"a", ":", "b">>, <<"x", " ", "y">>}

RECURSIVE JoinNames(_, _)
JoinNames(names, sep) ==
    IF Len(names) = 0 THEN <<>>
    ELSE IF Len(names) = 1 THEN Head(names)
    ELSE Head(names) \o <<sep>> \o JoinNames(Tail(names), sep)

UrlPaths ==
    {s.start \o JoinNames(names, s.sep) :
        s \in PathStarts, names \in SeqsUpTo(PathNames, MaxComponents)}

InitUrl ==
    /\ rd = NoDiagnostic
    /\ span = NoSpan
    /\ workspace_root = UnixRoot
    /\ target_windows \in BOOLEAN
    /\ overflow_checks = TRUE
    /\ mapped = NotReturned
    /\ location = None
    /\ naive = None
    /\ pc = "call"
    /\ url_path \in UrlPaths
    /\ url_result = [panic |-> FALSE, result |-> None]
    /\ NoWalk /\ NoXtaskCall

UrlFromPath ==
    /\ pc = "call"
    /\ url_result' = UrlCall(url_path)
    /\ pc' = "done"
    /\ UNCHANGED <<rd, span, workspace_root, target_windows, overflow_checks,
                   mapped, location, naive, url_path, walk_vars, xtask_vars>>

NextUrl == UrlFromPath

SpecUrl == InitUrl /\ [][NextUrl]_vars

\* The call of url_from_path_with_drive_lowercasing returned Ok.
UrlOk == pc = "done" /\ ~url_result.panic /\ IsSome(url_result.result)
UrlErr == pc = "done" /\ ~url_result.panic /\ IsNone(url_result.result)

HasDrive(path) == PathPrefix(path).kind \in {"Disk", "VerbatimDisk"}

\* The file URL of a drive path is file:///X:..., the drive letter is its
\* sixth character.
DriveLetterIndex == Len(<<"file", ":", "/", "/", "/">>) + 1
LowerLetter(c) == IF c = "C" THEN "c" ELSE IF c = "D" THEN "d" ELSE c
WithDriveLetterLowered(u) ==
    [i \in 1..Len(u) |-> IF i = DriveLetterIndex THEN LowerLetter(u[i]) ELSE u[i]]

\* C21: on a path with a Disk or VerbatimDisk prefix the result is the URL
\* of Url::from_file_path with exactly the drive letter lowercased and every
\* other character unchanged; on any other path it is that URL unmodified.
C21_OnlyDriveLetterLowercased ==
    UrlOk =>
        IF HasDrive(url_path)
        THEN Unwrap(url_result.result)
                 = WithDriveLetterLowered(Unwrap(UrlFromFilePath(url_path)))
        ELSE url_result.result = UrlFromFilePath(url_path)

\* What does hold: everything before the last colon of the URL is lowercased.
C21_PrefixOfLastColonLowercased ==
    (UrlOk /\ HasDrive(url_path)) =>
        LET u == Unwrap(UrlFromFilePath(url_path))
            i == LastIndexOf(u, ":")
        IN  Unwrap(url_result.result)
                = to_ascii_lowercase(SubSeq(u, 1, i - 1)) \o SubSeq(u, i, Len(u))

C21_TestDrive ==
    (pc = "done" /\ target_windows /\ url_path = <<"C", ":", "\\", "Test">>) =>
        url_result.result = Some(<<"file", ":", "/", "/", "/", "c", ":", "/", "Test">>)

C21_TestUnc ==
    (pc = "done" /\ target_windows
        /\ url_path = <<"\\", "\\", "localhost", "\\", "C$", "\\", "my_dir">>) =>
        url_result.result = Some(<<"file", ":", "/", "/", "localhost", "/", "C$", "/", "my_dir">>)

\* C22: the call never panics; it returns Err exactly when Url::from_file_path
\* fails, on the drive branch and on the other one, and Ok otherwise; a URL
\* of a drive path in which no colon is found is passed through as it is.
C22_ErrorValueNeverPanic ==
    pc = "done" =>
        /\ ~url_result.panic
        /\ IsNone(UrlFromFilePath(url_path)) <=> IsNone(url_result.result)
        /\ (HasDrive(url_path) /\ IsSome(UrlFromFilePath(url_path))) =>
               LowercaseDrive(Unwrap(UrlFromFilePath(url_path)), 0)
                   = UrlFromFilePath(url_path)

\* A drive path that is not absolute (C:Test) has been refused with Err.
C22_Witness ==
    /\ UrlErr
    /\ target_windows
    /\ HasDrive(url_path)
    /\ ~IsAbsolute(url_path)

\* ------------------------------------------------------------ the resolver, step by step
\* map_span_to_location and map_macro_span_to_location as the invocations
\* they make: stack holds the invocations that have not returned, innermost
\* last; calls lists every invocation made. An invocation is
\* [fn, span, depth], depth the position of its span in the chain of
\* expansions (0 the span of the call, i its i-th call site). pc is "walk"
\* while invocations are being entered, "some" while a location is handed
\* back (in naive), "none" while map_macro_span_to_location's None is.
Invocation(fn, sp, depth) == [fn |-> fn, span |-> sp, depth |-> depth]

Top == stack[Len(stack)]
Pop == SubSeq(stack, 1, Len(stack) - 1)

WalkRoots == {d \in ChildRoots : d.code = None}

\* The spans with at most depth call sites, over the files of ChainFiles;
\* the line of a span tells how many call sites may follow it.
RECURSIVE WalkSpans(_)
WalkSpans(depth) ==
    {Span(file, depth + 1, 1, FALSE, None, None) : file \in ChainFiles}
    \cup (IF depth = 0 THEN {}
          ELSE {Span(file, depth + 1, 1, FALSE, None, Some(Expansion(call_site))) :
                   file \in ChainFiles, call_site \in WalkSpans(depth - 1)})

\* Either a span to resolve, or a root diagnostic to translate.
InitWalk ==
    /\ \/ rd = NoDiagnostic /\ span \in WalkSpans(MaxDepth) /\ pc = "enter"
       \/ rd \in WalkRoots /\ span = NoSpan /\ pc = "call"
    /\ workspace_root = UnixRoot
    /\ target_windows = FALSE
    /\ overflow_checks = TRUE
    /\ mapped = NotReturned
    /\ location = None
    /\ naive = None
    /\ NoUrlCall /\ NoWalk /\ NoXtaskCall

\* The caller invokes map_span_to_location(span, workspace_root).
EnterResolver ==
    /\ pc = "enter"
    /\ stack' = <<Invocation("map_span_to_location", span, 0)>>
    /\ calls' = stack'
    /\ pc' = "walk"
    /\ UNCHANGED <<rd, span, workspace_root, target_windows, overflow_checks,
                   mapped, location, naive, url_vars, xtask_vars>>

\* map_span_to_location, lines 54-56: a span with expansion info invokes
\* map_macro_span_to_location on it.
SpanInvokesMacro ==
    /\ pc = "walk"
    /\ Len(stack) > 0
    /\ Top.fn = "map_span_to_location"
    /\ IsSome(Top.span.expansion)
    /\ stack' = Append(stack, Invocation("map_macro_span_to_location",
                                         Unwrap(Top.span.expansion).span, Top.depth + 1))
    /\ calls' = Append(calls, stack'[Len(stack')])
    /\ UNCHANGED <<rd, span, workspace_root, target_windows, overflow_checks,
                   mapped, location, naive, pc, url_vars, xtask_vars>>

\* map_span_to_location, line 61: without expansion info, or after
\* map_macro_span_to_location returned None, the naive location of the
\* invocation's own span is computed, and returned.
SpanReturnsNaive ==
    /\ Len(stack) > 0
    /\ Top.fn = "map_span_to_location"
    /\ \/ pc = "walk" /\ IsNone(Top.span.expansion)
       \/ pc = "none"
    /\ naive' = Some(map_span_to_location_naive(Top.span, workspace_root))
    /\ stack' = Pop
    /\ pc' = "some"
    /\ UNCHANGED <<rd, span, workspace_root, target_windows, overflow_checks,
                   mapped, location, calls, url_vars, xtask_vars>>

\* map_macro_span_to_location, lines 41-43: a call site in a real file is
\* resolved by map_span_to_location.
MacroInvokesSpan ==
    /\ pc = "walk"
    /\ Len(stack) > 0
    /\ Top.fn = "map_macro_span_to_location"
    /\ ~is_from_macro(Top.span.file_name)
    /\ stack' = Append(stack, Invocation("map_span_to_location", Top.span, Top.depth))
    /\ calls' = Append(calls, stack'[Len(stack')])
    /\ UNCHANGED <<rd, span, workspace_root, target_windows, overflow_checks,
                   mapped, location, naive, pc, url_vars, xtask_vars>>

\* Faulty variant: the recursion is made on span_macro itself, not on its
\* expansion, so a synthetic call site is examined again and again.
MacroInvokesMacro_SameSpan ==
    /\ pc = "walk"
    /\ Len(stack) > 0
    /\ Top.fn = "map_macro_span_to_location"
    /\ is_from_macro(Top.span.file_name)
    /\ IsSome(Top.span.expansion)
    /\ stack' = Append(stack, Invocation("map_macro_span_to_location", Top.span, Top.depth))
    /\ calls' = Append(calls, stack'[Len(stack')])
    /\ UNCHANGED <<rd, span, workspace_root, target_windows, overflow_checks,
                   mapped, location, naive, pc, url_vars, xtask_vars>>

\* Lines 45-47: a call site in a synthetic frame hands on to its own expansion.
MacroInvokesMacro ==
    /\ pc = "walk"
    /\ Len(stack) > 0
    /\ Top.fn = "map_macro_span_to_location"
    /\ is_from_macro(Top.span.file_name)
    /\ IsSome(Top.span.expansion)
    /\ stack' = Append(stack, Invocation("map_macro_span_to_location",
                                         Unwrap(Top.span.expansion).span, Top.depth + 1))
    /\ calls' = Append(calls, stack'[Len(stack')])
    /\ UNCHANGED <<rd, span, workspace_root, target_windows, overflow_checks,
                   mapped, location, naive, pc, url_vars, xtask_vars>>

\* Line 49: a synthetic call site without expansion returns None; an
\* invocation of map_macro_span_to_location hands the None of its callee on.
MacroReturnsNone ==
    /\ Len(stack) > 0
    /\ Top.fn = "map_macro_span_to_location"
    /\ \/ /\ pc = "walk"
          /\ is_from_macro(Top.span.file_name)
          /\ IsNone(Top.span.expansion)
       \/ pc = "none"
    /\ stack' = Pop
    /\ pc' = "none"
    /\ UNCHANGED <<rd, span, workspace_root, target_windows, overflow_checks,
                   mapped, location, naive, calls, url_vars, xtask_vars>>

\* Lines 42, 46, 56-57: a location is handed back unchanged by every
\* invocation that waits for it.
ReturnLocation ==
    /\ pc = "some"
    /\ Len(stack) > 0
    /\ stack' = Pop
    /\ UNCHANGED <<rd, span, workspace_root, target_windows, overflow_checks,
                   mapped, location, naive, pc, calls, url_vars, xtask_vars>>

\* The outermost invocation has returned to the caller.
LeaveResolver ==
    /\ pc = "some"
    /\ Len(stack) = 0
    /\ location' = naive
    /\ pc' = "done"
    /\ UNCHANGED <<rd, span, workspace_root, target_windows, overflow_checks,
                   mapped, naive, url_vars, walk_vars, xtask_vars>>

\* A step of the resolver.
ResolveStep ==
    \/ EnterResolver
    \/ SpanInvokesMacro
    \/ SpanReturnsNaive
    \/ MacroInvokesSpan
    \/ MacroInvokesMacro
    \/ MacroReturnsNone
    \/ ReturnLocation
    \/ LeaveResolver

NextWalk == ResolveStep \/ Translate

SpecWalk == InitWalk /\ [][NextWalk]_vars

\* The resolver runs on one thread, from the call to the return: a step
\* that can be taken is taken.
SpecWalkFair == SpecWalk /\ WF_vars(ResolveStep)

\* The invocations made so far of fn on the span at position depth of the chain.
InvocationsOf(fn, depth) ==
    {i \in 1..Len(calls) : calls[i].fn = fn /\ calls[i].depth = depth}

Resolving == rd = NoDiagnostic

ResolverFns == {"map_span_to_location", "map_macro_span_to_location"}

\* At every moment of a resolution of a span with N call sites: at most
\* 2N + 1 invocations have been made, so at most as many are nested; every
\* call site has been examined by at most one invocation of each function;
\* and what is returned in the end is what map_span_to_location computes.
WalkBounded ==
    Resolving =>
        /\ Len(calls) <= 2 * Len(CallSites(span)) + 1
        /\ Len(stack) <= Len(calls)
        /\ \A fn \in ResolverFns, depth \in 0..Len(CallSites(span)) :
               Cardinality(InvocationsOf(fn, depth)) <= 1
        /\ pc = "done" =>
               /\ stack = <<>>
               /\ location = Some(map_span_to_location(span, workspace_root))

\* A translation returns a list no longer than the list of spans it was given.
OutputFinite ==
    (~Resolving /\ pc = "done") => Len(mapped.diagnostics) <= Len(rd.spans)

\* C23: every resolution of a span with a finite chain of expansions
\* returns, whether the chain ends in a real file or at an absent expansion;
\* it examines each call site at most once and makes at most 2N + 1
\* invocations for a chain of N call sites; a translation returns a finite
\* list.
C23_ResolutionTerminates ==
    /\ [](WalkBounded /\ OutputFinite)
    /\ <>(Resolving => pc = "done")

\* A resolution has returned that made all 2N + 1 invocations, on a chain of
\* at least two call sites.
C23_Witness ==
    /\ Resolving
    /\ pc = "done"
    /\ Len(CallSites(span)) >= 2
    /\ Len(calls) = 2 * Len(CallSites(span)) + 1

\* ------------------------------------------------------------ reference result
\* The positions in the chain of sp of the call sites in a real file.
RealPositions(sp) ==
    {i \in 1..Len(CallSites(sp)) : ~SyntheticFrame(CallSites(sp)[i].file_name)}

Greatest(S) == CHOOSE i \in S : \A j \in S : j <= i

\* The span whose own file and bounds the result is made of.
ReferenceSpan(sp) ==
    IF RealPositions(sp) = {} THEN sp
    ELSE CallSites(sp)[Greatest(RealPositions(sp))]

\* C24: map_span_to_location returns the naive location of the outermost
\* call site of the chain that is in a real file; without expansion info, or
\* when every call site is in a synthetic frame, it returns the naive
\* location of the span itself, also when the span's own file is synthetic.
C24_ReferenceResult ==
    Resolved =>
        /\ Unwrap(location)
               = map_span_to_location_naive(ReferenceSpan(span), workspace_root)
        /\ (IsNone(span.expansion) \/ RealPositions(span) = {}) =>
               Unwrap(location) = map_span_to_location_naive(span, workspace_root)

\* A span in a synthetic frame whose call sites are all synthetic has been
\* located in its own file.
C24_Witness ==
    /\ Resolved
    /\ SyntheticFrame(span.file_name)
    /\ Len(CallSites(span)) >= 2
    /\ RealPositions(span) = {}
    /\ ~IsPanic(Unwrap(location))
    /\ Unwrap(location) = map_span_to_location_naive(span, workspace_root)

\* ------------------------------------------------------------ scoped lint names
\* The code of d is the lint name under the scope ns.
ScopedRoot(d, lint) ==
    IsSome(d.code) /\ Unwrap(d.code).code = <<"ns", ":", ":", lint>>

\* C25: the unused and the deprecated check read the code of the root as it
\* was received: a root whose code is ns::dead_code or ns::deprecated is
\* emitted with source ns and code dead_code or deprecated, with the severity
\* of its level and without tags.
C25_ChecksReadFullCode ==
    \A lint \in {"dead_code", "deprecated"} :
        (Returned /\ ScopedRoot(rd, lint)) =>
            \A n \in 1..Len(Emitted) :
                /\ Emitted[n].diagnostic.source = <<<<"ns">>>>
                /\ Emitted[n].diagnostic.code = <<<<lint>>>>
                /\ Emitted[n].diagnostic.severity = LevelSeverity(rd.level)
                /\ Emitted[n].diagnostic.tags = None

\* ns::dead_code reported as a warning: a Warning without tags.
C25_Witness ==
    /\ Returned
    /\ Len(Emitted) >= 1
    /\ ScopedRoot(rd, "dead_code")
    /\ rd.level = "Warning"
    /\ Emitted[1].diagnostic.code = <<<<"dead_code">>>>
    /\ Emitted[1].diagnostic.severity = <<"Warning">>
    /\ Emitted[1].diagnostic.tags = None

\* ------------------------------------------------------------ what a child is read for
\* One call of map_rust_diagnostic_to_lsp on a root of KinRoots: every child
\* comes as it is and with another level, a code, children of its own and
\* spans that are not primary around its spans.
KinBase ==
    {LineExpected, LineSecondaryOnly, RelatedChild, FixChild,
     Diagnostic("fill in", None, "Help",
                <<WithFix(Span(FileB, 4, 2, TRUE, None, None),
                          Some("HasPlaceholders"), Some("_")),
                  UnspecifiedA4>>, <<>>),
     Diagnostic("rename", None, "Help", <<FixA1, FixB2, FixA3>>, <<>>)}

Decorated(child) ==
    [child EXCEPT
        !.level = "Ice",
        !.code = DiagnosticCode(<<"dead_code">>),
        !.spans = <<SecondaryFixA5>> \o @
                      \o <<Span(FileB, 9, 1, FALSE, Some("also"), None)>>,
        !.children = <<FixChild, LineFound>>]

KinChildren == KinBase \cup {Decorated(child) : child \in KinBase}

KinRoots ==
    {Diagnostic("unused variable", None, "Warning", spans, children) :
        spans \in ChildSpanLists,
        children \in SeqsUpTo(KinChildren, MaxChildren)}

InitKin ==
    /\ rd \in KinRoots
    /\ span = NoSpan
    /\ workspace_root = UnixRoot
    /\ target_windows = FALSE
    /\ overflow_checks = TRUE
    /\ mapped = NotReturned
    /\ location = None
    /\ naive = None
    /\ pc = "call"
    /\ NoUrlCall /\ NoWalk /\ NoXtaskCall

SpecKin == InitKin /\ [][Next]_vars

\* What is left of a child when only its message and its primary spans are kept.
CoreOf(child) == Diagnostic(child.message, None, "Unknown", SelectSeq(child.spans, IsPrimary), <<>>)

WithCoreChildren(d) == [d EXCEPT !.children = [k \in 1..Len(d.children) |-> CoreOf(d.children[k])]]

\* The labels of the primary spans of d.
PrimaryLabels(d) ==
    {d.spans[i].label[1] : i \in {j \in PrimaryIndices(d) : d.spans[j].label # <<>>}}

\* The message of entry is the root message, the messages of the children in
\* I each on a new line, and at most the label of a primary span.
AppendedLines(entry, d, I) ==
    \/ entry.diagnostic.message = d.message \o LinesFrom(d, I, 1)
    \/ \E label \in PrimaryLabels(d) :
          entry.diagnostic.message = d.message \o LinesFrom(d, I, 1) \o "\n" \o label

\* The entries of related information that come from children.
ChildRelatedCount(entry, d) ==
    Len(WithoutBreadcrumbs(entry)) - Len(SecondaryEntriesFrom(d, 1))

\* C26: every child of a root with a primary span is exactly one of a message
\* line, an entry of related information or a fix: the three counts add up
\* to the number of children, the fixes are one action per fix child in
\* child order, and the result is the one of the same root with every child
\* cut down to its message and its primary spans.
C26_ClosedThreeWayPartition ==
    (Returned /\ PrimaryIndices(rd) # {}) =>
        /\ \A n \in 1..Len(Emitted) :
              /\ \E I \in SUBSET (1..Len(rd.children)) :
                    /\ AppendedLines(Emitted[n], rd, I)
                    /\ Cardinality(I) + ChildRelatedCount(Emitted[n], rd)
                           + Len(Emitted[n].fixes) = Len(rd.children)
              /\ Emitted[n].fixes = QuickFixesFrom(rd, 1)
        /\ mapped = map_rust_diagnostic_to_lsp(WithCoreChildren(rd), workspace_root)

\* A message line with secondary spans and children of its own, next to a
\* fix child of another level with a code: one line, one fix.
C26_Witness ==
    /\ Returned
    /\ Len(Emitted) = 1
    /\ Len(rd.children) = 2
    /\ rd.children[1] = Decorated(LineExpected)
    /\ rd.children[2] = Decorated(FixChild)
    /\ Len(Emitted[1].fixes) = 1
    /\ ChildRelatedCount(Emitted[1], rd) = 0
    /\ Emitted[1].diagnostic.message = "unused variable\nexpected type T"

\* ------------------------------------------------------------ spans that cannot be located
\* One call of map_rust_diagnostic_to_lsp on a root of HostileRoots, under
\* an absolute and a relative workspace root, with and without overflow
\* checks: secondary spans and children's spans in a relative file or with
\* a line or column of 0.
HostileSpans ==
    {Span(FileA, 1, 1, FALSE, Some("relative"), None),
     Span(FileAbs, 0, 1, FALSE, Some("line zero"), None),
     Span(FileAbs, 3, 1, FALSE, None, None),
     Span(FileAbs, 1, 1, TRUE, Some("primary"), None)}

HostileChildren ==
    {LineExpected,
     Diagnostic("column zero", None, "Note",
                <<Span(FileAbs, 1, 0, TRUE, None, None)>>, <<>>),
     Diagnostic("fix elsewhere", None, "Help",
                <<WithFix(Span(FileA, 1, 1, TRUE, None, None),
                          MachineApplicable, Some("x"))>>, <<>>)}

HostileRoots ==
    {Diagnostic("aborting", None, "Error", spans, children) :
        spans \in SeqsUpTo(HostileSpans, MaxSpans),
        children \in SeqsUpTo(HostileChildren, MaxChildren)}

InitHostile ==
    /\ rd \in HostileRoots
    /\ span = NoSpan
    /\ workspace_root \in {UnixRoot, RelativeRoot}
    /\ target_windows = FALSE
    /\ overflow_checks \in BOOLEAN
    /\ mapped = NotReturned
    /\ location = None
    /\ naive = None
    /\ pc = "call"
    /\ NoUrlCall /\ NoWalk /\ NoXtaskCall

SpecHostile == InitHostile /\ [][Next]_vars

\* A labelled secondary span of d, or a primary span of a child of d, has no
\* location: resolving it panics.
HasUnlocatableSpan(d) ==
    \/ \E i \in 1..Len(d.spans) :
          /\ ~d.spans[i].is_primary
          /\ d.spans[i].label # <<>>
          /\ IsPanic(ResolvedAt(d.spans[i]))
    \/ \E k \in 1..Len(d.children) :
          \E j \in PrimaryIndices(d.children[k]) :
              IsPanic(ResolvedAt(d.children[k].spans[j]))

\* C27: a root without a primary span returns the empty list and resolves
\* nothing: the call returns normally also when a secondary span or a span
\* of a child is in a file that has no URL or has a line or column of 0.
C27_FilterBeforeResolution ==
    (pc = "done" /\ PrimaryIndices(rd) = {}) =>
        mapped = [panic |-> FALSE, diagnostics |-> <<>>]

\* Under a relative workspace root and with overflow checks, a root with the
\* two labelled secondary spans and the two children with spans has returned
\* the empty list.
C27_Witness ==
    /\ pc = "done"
    /\ ~mapped.panic
    /\ Emitted = <<>>
    /\ PrimaryIndices(rd) = {}
    /\ workspace_root = RelativeRoot
    /\ overflow_checks
    /\ HasUnlocatableSpan(rd)
    /\ Len(rd.spans) = 2
    /\ \A i \in 1..2 : IsPanic(ResolvedAt(rd.spans[i]))
    /\ Len(rd.children) = 2
    /\ \A k \in 1..2 : PrimaryIndices(rd.children[k]) # {}
                       /\ IsPanic(ResolvedAt(rd.children[k].spans[1]))

\* ------------------------------------------------------------ codegen: update
\* The file at the path of update: whether it exists, whether it may be read
\* and written (for a missing file: whether it may be created), whether its
\* bytes are UTF-8, and its contents as a sequence of characters.
MaxCalls == 2

Modes == {"Overwrite", "Verify"}

\* Faulty variant: the texts are compared as they are.
normalize_Verbatim(s) == s

\* s.replace("\r\n", "\n"): the matches are found from the left and do not
\* overlap.
RECURSIVE normalize(_)
normalize(s) ==
    IF Len(s) = 0 THEN <<>>
    ELSE IF Len(s) >= 2 /\ s[1] = "\r" /\ s[2] = "\n"
         THEN <<"\n">> \o normalize(SubSeq(s, 3, Len(s)))
    ELSE <<s[1]>> \o normalize(Tail(s))

\* fs2::read_to_string: Err (None) for a file that is missing, may not be
\* read, or is not UTF-8.
read_to_string(f) ==
    IF f.exists /\ f.readable /\ f.utf8 THEN Some(f.contents) ELSE None

\* fs2::write, when it succeeds: the file is created if missing and holds
\* contents; the permissions of an existing file stay.
write(f, contents) ==
    [exists   |-> TRUE,
     readable |-> IF f.exists THEN f.readable ELSE TRUE,
     writable |-> TRUE,
     utf8     |-> TRUE,
     contents |-> contents]

\* The guard of the first match arm.
UpToDate(old_contents, contents) ==
    IsSome(old_contents) /\ normalize(Unwrap(old_contents)) = normalize(contents)

\* What the call returns, whether it wrote, and the file it leaves.
Outcome(result, wrote, f) == [result |-> result, wrote |-> wrote, file |-> f]

\* Faulty variant: a file that is not up to date is rewritten in both modes.
update_VerifyWrites(f, contents, mode) ==
    IF UpToDate(read_to_string(f), contents) THEN Outcome("Ok", FALSE, f)
    ELSE IF ~f.writable THEN Outcome("WriteFailed", FALSE, f)
    ELSE Outcome("Ok", TRUE, write(f, contents))

update(f, contents, mode) ==
    IF UpToDate(read_to_string(f), contents) THEN Outcome("Ok", FALSE, f)
    ELSE IF mode = "Verify" THEN Outcome("NotUpToDate", FALSE, f)
    ELSE IF ~f.writable THEN Outcome("WriteFailed", FALSE, f)
    ELSE Outcome("Ok", TRUE, write(f, contents))

Contents ==
    {<<>>,
     <<"a", "\n">>,
     <<"a", "\r", "\n">>,
     <<"a", "\r">>,
     <<"\r", "\n">>,
     <<"\r", "\r", "\n">>}

Permissions ==
    {[readable |-> TRUE, writable |-> TRUE, utf8 |-> TRUE],
     [readable |-> TRUE, writable |-> FALSE, utf8 |-> TRUE],
     [readable |-> FALSE, writable |-> TRUE, utf8 |-> TRUE],
     [readable |-> FALSE, writable |-> FALSE, utf8 |-> TRUE],
     [readable |-> TRUE, writable |-> TRUE, utf8 |-> FALSE]}

Files ==
    {Missing, [Missing EXCEPT !.writable = FALSE]}
    \cup {[exists |-> TRUE, readable |-> p.readable, writable |-> p.writable,
           utf8 |-> p.utf8, contents |-> c] : p \in Permissions, c \in Contents}

\* Up to MaxCalls calls of update on the same path, one after the other,
\* nothing else touching the file.
InitUpdate ==
    /\ rd = NoDiagnostic
    /\ span = NoSpan
    /\ workspace_root = UnixRoot
    /\ target_windows = FALSE
    /\ overflow_checks = TRUE
    /\ mapped = NotReturned
    /\ location = None
    /\ naive = None
    /\ pc = "idle"
    /\ NoUrlCall /\ NoWalk
    /\ disk_file \in Files
    /\ log = <<>>
    /\ source_text = <<>>
    /\ allow_empty = FALSE
    /\ blocks = <<>>

Logged(contents, mode, before, outcome) ==
    [contents |-> contents, mode |-> mode, before |-> before,
     result |-> outcome.result, wrote |-> outcome.wrote, after |-> outcome.file]

Update ==
    /\ Len(log) < MaxCalls
    /\ \E contents \in Contents, mode \in Modes :
          /\ disk_file' = update(disk_file, contents, mode).file
          /\ log' = Append(log, Logged(contents, mode, disk_file,
                                       update(disk_file, contents, mode)))
    /\ UNCHANGED <<rd, span, workspace_root, target_windows, overflow_checks,
                   mapped, location, naive, pc, url_vars, walk_vars,
                   source_text, allow_empty, blocks>>

NextUpdate == Update

SpecUpdate == InitUpdate /\ [][NextUpdate]_vars

\* The positions of s that are not a "\r" with a "\n" right after it.
KeptPositions(s) ==
    {i \in 1..Len(s) : ~(s[i] = "\r" /\ i < Len(s) /\ s[i + 1] = "\n")}

RECURSIVE Keep(_, _, _)
Keep(s, I, i) ==
    IF i > Len(s) THEN <<>>
    ELSE (IF i \in I THEN <<s[i]>> ELSE <<>>) \o Keep(s, I, i + 1)

\* s with every "\r\n" replaced by "\n".
LfOnly(s) == Keep(s, KeptPositions(s), 1)

\* The file can be read and holds contents, line endings apart.
SameModuloLineEndings(f, contents) ==
    /\ f.exists /\ f.readable /\ f.utf8
    /\ LfOnly(f.contents) = LfOnly(contents)

\* C28: a call in mode Verify writes nothing and leaves the file as it was;
\* it returns Ok exactly when the file can be read and holds the given
\* contents, line endings apart, and the "not up-to-date" error otherwise.
C28_VerifyNeverWrites ==
    \A k \in 1..Len(log) :
        log[k].mode = "Verify" =>
            /\ ~log[k].wrote
            /\ log[k].after = log[k].before
            /\ log[k].result = IF SameModuloLineEndings(log[k].before, log[k].contents)
                               THEN "Ok" ELSE "NotUpToDate"

\* A file with CRLF line endings has been verified against the same text
\* with LF line endings, and a missing file has been found out of date.
C28_Witness ==
    /\ Len(log) = 2
    /\ log[1].mode = "Verify"
    /\ log[1].before.exists
    /\ log[1].before.contents = <<"a", "\r", "\n">>
    /\ log[1].contents = <<"a", "\n">>
    /\ log[1].result = "Ok"
    /\ log[2].mode = "Verify"
    /\ log[2].contents = <<"a", "\r">>
    /\ log[2].result = "NotUpToDate"
    /\ disk_file = log[1].before

\* The call k of the log succeeded in mode Overwrite and call k + 1 was made
\* with the same contents.
RepeatedAfterOverwrite(k) ==
    /\ k < Len(log)
    /\ log[k].mode = "Overwrite"
    /\ log[k].result = "Ok"
    /\ log[k + 1].contents = log[k].contents

\* A call in mode Overwrite writes only a file that is missing, cannot be
\* read, or differs from the given contents, line endings apart.
WritesOnlyWhenNeeded ==
    \A k \in 1..Len(log) :
        (log[k].mode = "Overwrite" /\ log[k].wrote) =>
            ~SameModuloLineEndings(log[k].before, log[k].contents)

\* C29 as stated: update in mode Overwrite writes only when needed, and
\* after any successful call in mode Overwrite the next call with the same
\* contents, in either mode, returns Ok and writes nothing.
C29_OverwriteIdempotent ==
    /\ WritesOnlyWhenNeeded
    /\ \A k \in 1..Len(log) :
          RepeatedAfterOverwrite(k) =>
              log[k + 1].result = "Ok" /\ ~log[k + 1].wrote

\* C29, amended: the next call returns Ok and writes nothing when the file
\* can be read after the first call; a file that can be written but not read
\* is written again by the next call in mode Overwrite and found out of
\* date by the next call in mode Verify.
C29_IdempotentWhenReadable ==
    /\ WritesOnlyWhenNeeded
    /\ \A k \in 1..Len(log) :
          RepeatedAfterOverwrite(k) =>
              IF log[k].after.readable
              THEN log[k + 1].result = "Ok" /\ ~log[k + 1].wrote
              ELSE /\ log[k + 1].wrote = (log[k + 1].mode = "Overwrite")
                   /\ log[k + 1].result
                          = (IF log[k + 1].mode = "Overwrite" THEN "Ok" ELSE "NotUpToDate")

\* A missing file has been written, and verified by the next call.
C29_Witness ==
    /\ Len(log) = 2
    /\ RepeatedAfterOverwrite(1)
    /\ ~log[1].before.exists
    /\ log[1].wrote
    /\ log[1].contents = <<"a", "\r", "\n">>
    /\ log[2].mode = "Verify"
    /\ log[2].result = "Ok"
    /\ disk_file.contents = <<"a", "\r", "\n">>

\* ------------------------------------------------------------ codegen: comment blocks
\* A text is a sequence of characters, "\n" the line terminator; a block is
\* [line, block]: the number recorded for it and its lines without "// ".
MaxLines == 3

\* str::lines: the runs between "\n"; a last line without characters after
\* the final "\n" is not a line. cur is the line read so far.
RECURSIVE SplitLines(_, _)
SplitLines(text, cur) ==
    IF Len(text) = 0 THEN (IF Len(cur) = 0 THEN <<>> ELSE <<cur>>)
    ELSE IF Head(text) = "\n" THEN <<cur>> \o SplitLines(Tail(text), <<>>)
    ELSE SplitLines(Tail(text), Append(cur, Head(text)))

RECURSIVE trim_start(_)
trim_start(line) ==
    IF Len(line) > 0 /\ Head(line) = " " THEN trim_start(Tail(line)) ELSE line

\* text.lines().map(str::trim_start)
TrimmedLines(text) ==
    [i \in 1..Len(SplitLines(text, <<>>)) |-> trim_start(SplitLines(text, <<>>)[i])]

prefix == <<"/", "/", " ">>

starts_with(line, p) == Len(line) >= Len(p) /\ SubSeq(line, 1, Len(p)) = p

EmptyBlock == [line |-> 0, block |-> <<>>]

\* The locals res and block of the loop.
LoopState(res, block) == [res |-> res, block |-> block]

PushLine(st, s) == [st EXCEPT !.block.block = Append(@, s)]

\* Lines 110-113: a line that is not a comment ends the block, if there is
\* one (mem::take leaves (0, [])), and sets the number of the next block.
EndBlock(st, line_num) ==
    [(IF Len(st.block.block) > 0
      THEN LoopState(Append(st.res, st.block), EmptyBlock)
      ELSE st) EXCEPT !.block.line = line_num + 2]

\* One turn of the loop, line_num counted from 0.
LoopBody(st, line_num, line, allow_blocks_with_empty_lines) ==
    IF line = <<"/", "/">> /\ allow_blocks_with_empty_lines THEN PushLine(st, <<>>)
    ELSE IF starts_with(line, prefix)
         THEN PushLine(st, SubSeq(line, Len(prefix) + 1, Len(line)))
    ELSE EndBlock(st, line_num)

\* The loop over lines from position i on.
RECURSIVE Loop(_, _, _, _)
Loop(st, lines, i, allow_blocks_with_empty_lines) ==
    IF i > Len(lines) THEN st
    ELSE Loop(LoopBody(st, i - 1, lines[i], allow_blocks_with_empty_lines),
              lines, i + 1, allow_blocks_with_empty_lines)

\* Lines 116-119.
PushLast(st) ==
    IF Len(st.block.block) > 0 THEN Append(st.res, st.block) ELSE st.res

do_extract_comment_blocks(text, allow_blocks_with_empty_lines) ==
    PushLast(Loop(LoopState(<<>>, EmptyBlock), TrimmedLines(text), 1,
                  allow_blocks_with_empty_lines))

SourceLines ==
    {<<"/", "/", " ", "a">>,
     <<" ", "/", "/", " ", "b">>,
     <<"/", "/">>,
     <<"/", "/", "a">>,
     <<"f", "n">>,
     <<>>}

\* Every line ended by "\n".
RECURSIVE Terminated(_)
Terminated(lines) ==
    IF Len(lines) = 0 THEN <<>>
    ELSE Head(lines) \o <<"\n">> \o Terminated(Tail(lines))

\* Texts of up to MaxLines lines, the last one with or without its "\n".
SourceTexts ==
    {Terminated(lines) : lines \in SeqsUpTo(SourceLines, MaxLines)}
    \cup {SubSeq(Terminated(lines), 1, Len(Terminated(lines)) - 1) :
            lines \in SeqsUpTo(SourceLines, MaxLines) \ {<<>>}}

InitExtract ==
    /\ rd = NoDiagnostic
    /\ span = NoSpan
    /\ workspace_root = UnixRoot
    /\ target_windows = FALSE
    /\ overflow_checks = TRUE
    /\ mapped = NotReturned
    /\ location = None
    /\ naive = None
    /\ pc = "call"
    /\ NoUrlCall /\ NoWalk
    /\ disk_file = Missing
    /\ log = <<>>
    /\ source_text \in SourceTexts
    /\ allow_empty \in BOOLEAN
    /\ blocks = <<>>

Extract ==
    /\ pc = "call"
    /\ blocks' = do_extract_comment_blocks(source_text, allow_empty)
    /\ pc' = "done"
    /\ UNCHANGED <<rd, span, workspace_root, target_windows, overflow_checks,
                   mapped, location, naive, url_vars, walk_vars,
                   disk_file, log, source_text, allow_empty>>

NextExtract == Extract

SpecExtract == InitExtract /\ [][NextExtract]_vars

\* The lines of the text as they are, and whether line i is a comment line:
\* after its leading blanks it starts with "// ", or is "//" alone when
\* empty lines are allowed.
TextLines == SplitLines(source_text, <<>>)

WithoutBlanks(line) ==
    SubSeq(line, 1 + Cardinality({i \in 1..Len(line) :
                                     \A j \in 1..i : line[j] = " "}), Len(line))

IsCommentLine(i) ==
    \/ starts_with(WithoutBlanks(TextLines[i]), <<"/", "/", " ">>)
    \/ allow_empty /\ WithoutBlanks(TextLines[i]) = <<"/", "/">>

\* Lines i..j are a maximal run of comment lines.
IsRun(i, j) ==
    /\ i <= j
    /\ \A k \in i..j : IsCommentLine(k)
    /\ i = 1 \/ ~IsCommentLine(i - 1)
    /\ j = Len(TextLines) \/ ~IsCommentLine(j + 1)

Runs == {r \in (1..Len(TextLines)) \X (1..Len(TextLines)) : IsRun(r[1], r[2])}

\* The contents of a comment line: what follows "// ", nothing for "//".
CommentText(i) ==
    SubSeq(WithoutBlanks(TextLines[i]), 4, Len(WithoutBlanks(TextLines[i])))

\* The run r as a block numbered with the 1-based number of its first line.
BlockOf(r) == [line |-> r[1], block |-> [k \in 1..(r[2] - r[1] + 1) |-> CommentText(r[1] + k - 1)]]

\* The blocks of the runs that start at line i or later, in text order.
RECURSIVE BlocksFrom(_)
BlocksFrom(i) ==
    IF i > Len(TextLines) THEN <<>>
    ELSE IF \E r \in Runs : r[1] = i
         THEN <<BlockOf(CHOOSE r \in Runs : r[1] = i)>> \o BlocksFrom(i + 1)
    ELSE BlocksFrom(i + 1)

\* C30: the result is, in text order, the maximal runs of comment lines,
\* none of them empty, each numbered with the 1-based line number of its
\* first line, a run that starts on the first line of the text included.
C30_BlocksWithFirstLineNumber ==
    pc = "done" =>
        /\ blocks = BlocksFrom(1)
        /\ \A n \in 1..Len(blocks) : Len(blocks[n].block) >= 1

\* What holds: the runs and their contents are right, and so is the number of
\* every block but one that starts on the first line, which is numbered 0.
C30_FirstLineBlockNumberedZero ==
    pc = "done" =>
        /\ Len(blocks) = Len(BlocksFrom(1))
        /\ \A n \in 1..Len(blocks) :
              /\ blocks[n].block = BlocksFrom(1)[n].block
              /\ Len(blocks[n].block) >= 1
              /\ blocks[n].line = IF BlocksFrom(1)[n].line = 1 THEN 0
                                  ELSE BlocksFrom(1)[n].line
====
